---- MODULE Spec2Model ----
(***************************************************************************)
(* A state-machine model of pycomm3.ab_comm.clx.Driver, the EtherNet/IP    *)
(* tag client for Logix controllers (src/pycomm3/ab_comm/clx.py).          *)
(*                                                                         *)
(* The client is single threaded.  Its call stack is the variable `stack`: *)
(* an empty stack is the client at rest between two public calls.  One     *)
(* action is one step of the running call: the code from one blocking      *)
(* call of the transport (send_unit_data, forward_open) to the next.  The  *)
(* controller is the environment: every reply (status, payload) is drawn   *)
(* from a bounded universe.                                                *)
(***************************************************************************)
EXTENDS Integers, Sequences, FiniteSets, TLC

(***************************************************************************)
(* Bounds of the model.                                                    *)
(***************************************************************************)
MaxOps == 2        \* public calls in one behaviour
MaxReq == 1        \* replies that keep one request loop going
MaxLen == 2        \* payload bytes in one Read Tag Fragmented reply
MaxPage == 1       \* symbol entries in one Get Instance Attributes List reply

(***************************************************************************)
(* Values of pycomm3.cip.cip_base used by the driver.                      *)
(***************************************************************************)
SUCCESS == 0
INSUFFICIENT_PACKET_SPACE == 6
PATH_SEGMENT_ERROR == 4

\* the CIP general statuses the modelled controller answers with
StatusU == {SUCCESS, INSUFFICIENT_PACKET_SPACE, PATH_SEGMENT_ERROR}

\* type code -> type name
I_DATA_TYPE ==
  (193 :> "BOOL") @@ (194 :> "SINT") @@ (195 :> "INT") @@ (196 :> "DINT") @@
  (197 :> "LINT") @@ (202 :> "REAL") @@ (209 :> "BYTE") @@ (210 :> "WORD") @@
  (211 :> "DWORD") @@ (212 :> "LWORD")

\* type name -> type code
S_DATA_TYPE ==
  [t \in {I_DATA_TYPE[c] : c \in DOMAIN I_DATA_TYPE} |->
     CHOOSE c \in DOMAIN I_DATA_TYPE : I_DATA_TYPE[c] = t]

\* type name -> encoded size in bytes
DATA_FUNCTION_SIZE ==
  [BOOL |-> 1, SINT |-> 1, INT |-> 2, DINT |-> 4, LINT |-> 8,
   REAL |-> 4, BYTE |-> 1, WORD |-> 2, DWORD |-> 4, LWORD |-> 8]

RECURSIVE Pow2(_)
Pow2(n) == IF n = 0 THEN 1 ELSE 2 * Pow2(n - 1)

Pow256(n) == IF n = 0 THEN 1 ELSE IF n = 1 THEN 256 ELSE IF n = 2 THEN 65536
             ELSE 16777216

RECURSIVE LittleEndian(_)
LittleEndian(bs) ==
  IF bs = <<>> THEN 0 ELSE Head(bs) + 256 * LittleEndian(Tail(bs))

\* two's complement: the last byte carries the sign
SignedLittleEndian(bs) ==
  LET n == Len(bs)
      top == bs[n]
  IN  LittleEndian(SubSeq(bs, 1, n - 1))
        + Pow256(n - 1) * (IF top >= 128 THEN top - 256 ELSE top)

\* UNPACK_DATA_FUNCTION[typ](bs) for a slice of exactly DATA_FUNCTION_SIZE[typ]
\* bytes (of at most four): little endian, two's complement for the signed types
UNPACK_DATA_FUNCTION(typ, bs) ==
  CASE typ = "BOOL" -> (LittleEndian(bs) # 0)
    [] typ \in {"SINT", "INT", "DINT"} -> SignedLittleEndian(bs)
    [] OTHER -> LittleEndian(bs)

\* a slice too short for the type makes struct.unpack raise
UnpackRaises(typ, bs) == Len(bs) < DATA_FUNCTION_SIZE[typ]

(***************************************************************************)
(* Generic helpers.                                                        *)
(***************************************************************************)
SeqsUpTo(S, n) == UNION {[1..k -> S] : k \in 0..n}

RECURSIVE Flatten(_)
Flatten(ss) == IF ss = <<>> THEN <<>> ELSE Head(ss) \o Flatten(Tail(ss))

Last(s) == s[Len(s)]
Front(s) == SubSeq(s, 1, Len(s) - 1)

\* Python's s[a:b] on a 0-based sequence
Slice(s, a, b) ==
  LET hi == IF b > Len(s) THEN Len(s) ELSE b
  IN  IF a >= hi THEN <<>> ELSE SubSeq(s, a + 1, hi)

(***************************************************************************)
(* State.                                                                  *)
(***************************************************************************)
VARIABLES
  _target_is_connected,        \* Base: the connected session is open
  _status,                     \* Base: <<code, text>> of the last error
  _reply,                      \* Base: the last reply received
  _more_packets_available,
  _tag_list,
  _byte_offset,
  _last_position,
  _last_instance,
  _output_raw,
  _buffer,
  _get_template_in_progress,
  _struct_cache,
  _template_cache,
  _udt_cache,
  _program_names,
  stack,                       \* call stack of the running public call
  result,                      \* how the last public call ended
  ops,                         \* public calls started so far
  h_sent,                      \* history: requests of the running call
  h_rx,                        \* history: replies of the running call
  h_fo,                        \* history: forward_open calls of the running call
  h_plc                        \* history: the tags of the controller

\* the fields the reply parsers read and write
pvars == <<_status, _reply, _more_packets_available, _tag_list, _byte_offset,
           _last_position, _last_instance, _buffer, _get_template_in_progress>>
cvars == <<_struct_cache, _template_cache, _udt_cache, _program_names>>
hvars == <<h_sent, h_rx, h_fo, h_plc>>
vars == <<_target_is_connected, _output_raw, pvars, cvars, stack, result, ops, hvars>>

(***************************************************************************)
(* The fields of the driver the reply parsers work on, as one record.      *)
(***************************************************************************)
Driver ==
  [_status |-> _status,
   _more_packets_available |-> _more_packets_available,
   _tag_list |-> _tag_list,
   _byte_offset |-> _byte_offset,
   _last_position |-> _last_position,
   _last_instance |-> _last_instance,
   _output_raw |-> _output_raw,
   _buffer |-> _buffer,
   _get_template_in_progress |-> _get_template_in_progress]

SetDriver(d) ==
  /\ _status' = d._status
  /\ _more_packets_available' = d._more_packets_available
  /\ _tag_list' = d._tag_list
  /\ _byte_offset' = d._byte_offset
  /\ _last_position' = d._last_position
  /\ _last_instance' = d._last_instance
  /\ _output_raw' = d._output_raw
  /\ _buffer' = d._buffer
  /\ _get_template_in_progress' = d._get_template_in_progress

\* Base.clear(): the status of the previous call is dropped
NoStatus == <<0, "">>

(***************************************************************************)
(* Replies.  A reply is what _receive() left in _reply: the encapsulation  *)
(* command and status, the reply service, the CIP general status and the   *)
(* payload that starts at offset 50.  NoReply is _reply = None.            *)
(***************************************************************************)
NoReply ==
  [cmd |-> "none", encap |-> SUCCESS, service |-> "none", status |-> SUCCESS,
   body |-> <<>>]

EncapError(service) ==
  [cmd |-> "send_unit_data", encap |-> 1, service |-> service, status |-> SUCCESS,
   body |-> <<>>]

Reply(service, status, body) ==
  [cmd |-> "send_unit_data", encap |-> SUCCESS, service |-> service,
   status |-> status, body |-> body]

(***************************************************************************)
(* _parse_fragment (lines 197-236).  The payload of a Read Tag Fragmented  *)
(* reply is body = [hdr, dt, data]: hdr is FALSE when the reply ends       *)
(* before the two bytes of the data type, dt is the type code, data the    *)
(* bytes after it.  '' and [] are both the empty sequence here:            *)
(* _output_raw tells which of the two _tag_list is.                        *)
(***************************************************************************)
NextPosition_stuck(p) == p

\* line 227
NextPosition(p) == p + 1

RECURSIVE FragmentLoop(_, _, _, _, _)
\* lines 213-227: fragment is fragment_returned[idx:]
FragmentLoop(data_type, fragment, raw, tl, pos) ==
  IF fragment = <<>>
  THEN [tag_list |-> tl, last_position |-> pos, raised |-> FALSE]
  ELSE IF data_type \notin DOMAIN I_DATA_TYPE
  THEN [tag_list |-> tl, last_position |-> pos, raised |-> TRUE]   \* KeyError
  ELSE LET typ == I_DATA_TYPE[data_type]
           size == DATA_FUNCTION_SIZE[typ]
           chunk == Slice(fragment, 0, size)
       IN  IF raw
           THEN \* line 224: '' += bytes is a TypeError
                [tag_list |-> tl, last_position |-> pos, raised |-> TRUE]
           ELSE IF UnpackRaises(typ, chunk)
           THEN [tag_list |-> tl, last_position |-> pos, raised |-> TRUE]
           ELSE FragmentLoop(data_type, Slice(fragment, size, Len(fragment)), raw,
                             Append(tl, <<pos, UNPACK_DATA_FUNCTION(typ, chunk)>>),
                             NextPosition(pos))

FragmentStatus_hang(d, status, fragment_returned_length) ==
  IF status = SUCCESS
  THEN [d EXCEPT !._byte_offset = -1]
  ELSE [d EXCEPT !._byte_offset = @ + fragment_returned_length]

FragmentStatus_rewind(d, status, fragment_returned_length) ==
  IF status = SUCCESS
  THEN [d EXCEPT !._byte_offset = -1]
  ELSE IF status = INSUFFICIENT_PACKET_SPACE
  THEN [d EXCEPT !._byte_offset = fragment_returned_length]
  ELSE [d EXCEPT !._status = <<2, "fragment">>, !._byte_offset = -1]

\* lines 229-236
FragmentStatus(d, status, fragment_returned_length) ==
  IF status = SUCCESS
  THEN [d EXCEPT !._byte_offset = -1]
  ELSE IF status = INSUFFICIENT_PACKET_SPACE
  THEN [d EXCEPT !._byte_offset = @ + fragment_returned_length]
  ELSE [d EXCEPT !._status = <<2, "fragment">>, !._byte_offset = -1]

_parse_fragment(d, body, status) ==
  IF ~body.hdr
  THEN [d |-> d, raised |-> TRUE]
  ELSE LET e == FragmentLoop(body.dt, body.data, d._output_raw,
                             d._tag_list, d._last_position)
           d1 == [d EXCEPT !._tag_list = e.tag_list,
                           !._last_position = e.last_position]
       IN  IF e.raised
           THEN [d |-> d1, raised |-> TRUE]
           ELSE [d |-> FragmentStatus(d1, status, Len(body.data)), raised |-> FALSE]

(***************************************************************************)
(* _parse_instance_attribute_list (lines 89-123).  body = [entries, trunc]:*)
(* the symbol entries the reply holds, and whether bytes of a further,     *)
(* incomplete entry follow them (unpacking it raises).                     *)
(***************************************************************************)
NextInstance_same(instance) == instance

\* line 120
NextInstance(instance) == instance + 1

InstanceListStatus_loop(d, status, instance) ==
  IF status = SUCCESS
  THEN [d EXCEPT !._last_instance = -1]
  ELSE IF status = INSUFFICIENT_PACKET_SPACE
  THEN [d EXCEPT !._last_instance = NextInstance(instance)]
  ELSE [d EXCEPT !._last_instance = NextInstance(instance)]

\* lines 117-123
InstanceListStatus(d, status, instance) ==
  IF status = SUCCESS
  THEN [d EXCEPT !._last_instance = -1]
  ELSE IF status = INSUFFICIENT_PACKET_SPACE
  THEN [d EXCEPT !._last_instance = NextInstance(instance)]
  ELSE [d EXCEPT !._status = <<1, "unknown status during _parse_tag_list">>,
                 !._last_instance = -1]

_parse_instance_attribute_list(d, body, status) ==
  LET instance == IF body.entries = <<>> THEN 0
                  ELSE Last(body.entries).instance_id
      d1 == [d EXCEPT !._tag_list = @ \o body.entries]
  IN  IF body.trunc
      THEN [d |-> d1, raised |-> TRUE]
      ELSE [d |-> InstanceListStatus(d1, status, instance), raised |-> FALSE]

(***************************************************************************)
(* _parse_structure_makeup_attributes (lines 125-174).  body = [short,     *)
(* fail, object_definition_size, structure_size, member_count,             *)
(* structure_handle]: short when the payload is too short to unpack, fail  *)
(* the first of the four attributes whose own status is not SUCCESS (0 =   *)
(* none).  A Python dict is a function on its keys.                        *)
(***************************************************************************)
EmptyDict == <<>>

_parse_structure_makeup_attributes(d, body, status) ==
  LET put(b) == [d EXCEPT !._buffer = b]
      a1 == "object_definition_size" :> body.object_definition_size
      a2 == a1 @@ ("structure_size" :> body.structure_size)
      a3 == a2 @@ ("member_count" :> body.member_count)
      a4 == a3 @@ ("structure_handle" :> body.structure_handle)
  IN  IF status # SUCCESS
      THEN [d |-> put("Error" :> status), raised |-> FALSE]
      ELSE IF body.short
      THEN [d |-> put(EmptyDict), raised |-> TRUE]
      ELSE IF body.fail = 1
      THEN [d |-> put("Error" :> "object_definition Error"), raised |-> FALSE]
      ELSE IF body.fail = 2
      THEN [d |-> put(a1 @@ ("Error" :> "structure Error")), raised |-> FALSE]
      ELSE IF body.fail = 3
      THEN [d |-> put(a2 @@ ("Error" :> "member_count Error")), raised |-> FALSE]
      ELSE IF body.fail = 4
      THEN [d |-> put(a3 @@ ("Error" :> "structure_handle Error")), raised |-> FALSE]
      ELSE [d |-> put(a4), raised |-> FALSE]

(***************************************************************************)
(* _parse_template (lines 176-195).  body = [data]: the template bytes of  *)
(* the reply, as a sequence of blocks of BlockBytes bytes each (one member *)
(* entry of the template is one block, line 974).                          *)
(***************************************************************************)
BlockBytes == 8

TemplateStatus_finish(d, status, bytes_received) ==
  IF status = SUCCESS \/ status = INSUFFICIENT_PACKET_SPACE
  THEN [d EXCEPT !._get_template_in_progress = FALSE]
  ELSE [d EXCEPT !._status = <<1, "unknown status during _parse_template">>,
                 !._last_instance = -1]

\* lines 187-195
TemplateStatus(d, status, bytes_received) ==
  IF status = SUCCESS
  THEN [d EXCEPT !._get_template_in_progress = FALSE]
  ELSE IF status = INSUFFICIENT_PACKET_SPACE
  THEN [d EXCEPT !._byte_offset = @ + bytes_received]
  ELSE [d EXCEPT !._status = <<1, "unknown status during _parse_template">>,
                 !._last_instance = -1]

_parse_template(d, body, status) ==
  LET tags_returned == body.data
      bytes_received == BlockBytes * Len(tags_returned)
      d1 == [d EXCEPT !._buffer = @ \o tags_returned]
  IN  [d |-> TemplateStatus(d1, status, bytes_received), raised |-> FALSE]

(***************************************************************************)
(* _check_reply (lines 307-362): [d, ret, raised], the driver after the    *)
(* check, the value returned and whether DataError was raised instead.     *)
(***************************************************************************)
Dispatched(p) == [d |-> p.d, ret |-> TRUE, raised |-> p.raised]

_check_reply(d, r) ==
  LET d0 == [d EXCEPT !._more_packets_available = FALSE]
      failed(text) == [d |-> [d0 EXCEPT !._status = <<3, text>>],
                       ret |-> FALSE, raised |-> FALSE]
      passed == [d |-> d0, ret |-> TRUE, raised |-> FALSE]
  IN  IF r.cmd = "none" THEN failed("without reply")
      ELSE IF r.encap # SUCCESS THEN failed("reply status")
      ELSE IF r.cmd = "send_rr_data"
      THEN IF r.status # SUCCESS THEN failed("send_rr_data reply") ELSE passed
      ELSE IF r.cmd = "send_unit_data"
      THEN IF r.service = "Read Tag Fragmented"
           THEN Dispatched(_parse_fragment(d0, r.body, r.status))
           ELSE IF r.service = "Get Instance Attributes List"
           THEN Dispatched(_parse_instance_attribute_list(d0, r.body, r.status))
           ELSE IF r.service = "Get Attributes"
           THEN Dispatched(_parse_structure_makeup_attributes(d0, r.body, r.status))
           ELSE IF r.service = "Read Template" /\ d0._get_template_in_progress
           THEN Dispatched(_parse_template(d0, r.body, r.status))
           ELSE IF r.status = INSUFFICIENT_PACKET_SPACE
           THEN [d |-> [d0 EXCEPT !._status = <<3, "Insufficient Packet Space">>,
                                  !._more_packets_available = TRUE],
                 ret |-> TRUE, raised |-> FALSE]
           ELSE IF r.status # SUCCESS
           THEN failed("send_unit_data reply")
           ELSE passed
      ELSE passed

(***************************************************************************)
(* Base.send_unit_data and Base.forward_open, as the interface section of  *)
(* the specification gives them: send_unit_data ships the request,         *)
(* receives the reply into _reply, has _check_reply classify it, and       *)
(* returns the reply, or None when the check failed.                       *)
(*   send_unit_data(d, r) = [d, ret, raised] with ret = "None" or "reply". *)
(***************************************************************************)
send_unit_data(d, r) ==
  LET c == _check_reply(d, r)
  IN  [d |-> c.d, raised |-> c.raised,
       ret |-> IF c.ret THEN "reply" ELSE "None"]

\* a request as send_unit_data ships it; connected is _target_is_connected
\* at that moment
Request(service, arg, connected) ==
  [service |-> service, arg |-> arg, connected |-> connected]

\* the history of one round trip
Exchange(req, r) ==
  /\ _reply' = r
  /\ h_sent' = Append(h_sent, req)
  /\ h_rx' = Append(h_rx, r)
  /\ UNCHANGED h_plc

\* forward_open() succeeds or fails as the transport decides (open_ok); on
\* success the session is connected
forward_open(open_ok) == [connected |-> open_ok, ret |-> open_ok]

\* RequestPath: create_tag_rp(tag) is None when the tag cannot be tokenised;
\* of the tags of the model only the empty one cannot
create_tag_rp_is_None(tag) == tag = <<>>

(***************************************************************************)
(* SessionGate, the guard every operation begins with (lines 382-386,      *)
(* 463-467, 651-655, 696-700, 749-753, 808-812, 843-847):                  *)
(* [connected, opened, pass] = the session afterwards, the number of       *)
(* forward_open calls made, and whether the operation goes on.             *)
(***************************************************************************)
SessionGate_none(connected, open_ok) ==
  [connected |-> connected, opened |-> 0, pass |-> TRUE]

SessionGate_retry(connected, open_ok) ==
  IF connected
  THEN [connected |-> TRUE, opened |-> 0, pass |-> TRUE]
  ELSE [connected |-> forward_open(open_ok).connected,
        opened |-> IF open_ok THEN 1 ELSE 2, pass |-> forward_open(open_ok).ret]

SessionGate(connected, open_ok) ==
  IF connected
  THEN [connected |-> TRUE, opened |-> 0, pass |-> TRUE]
  ELSE [connected |-> forward_open(open_ok).connected, opened |-> 1,
        pass |-> forward_open(open_ok).ret]

(***************************************************************************)
(* The call stack.  A frame is [fn, pc, arg, n, loc]: the function, the    *)
(* place in it, its arguments, the number of requests its loop has sent    *)
(* and its local variables.                                                *)
(***************************************************************************)
Idle == stack = <<>>
Top == stack[Len(stack)]
Running(fn) == stack # <<>> /\ Top.fn = fn
Frame(fn, pc, arg) == [fn |-> fn, pc |-> pc, arg |-> arg, n |-> 0, loc |-> <<>>]

Returned(op, value) == [op |-> op, kind |-> "return", value |-> value]
ReturnedNone(op) == [op |-> op, kind |-> "None", value |-> <<>>]
Raised(op) == [op |-> op, kind |-> "raise", value |-> <<>>]
InCall(op) == [op |-> op, kind |-> "running", value |-> <<>>]

\* the statuses a reply may carry when the loop it answers has sent n requests
\* before this one: a reply that keeps the loop going is one of the first MaxReq
StatusesAt(n) ==
  IF n < MaxReq THEN StatusU ELSE StatusU \ {INSUFFICIENT_PACKET_SPACE}

Replies(service, bodies, n) ==
  {NoReply, EncapError(service)} \cup
  {Reply(service, st, b) : st \in StatusesAt(n), b \in bodies}

(***************************************************************************)
(* The controller, where one is modelled: mem is its tags by request path, *)
(* each [typ, bits] with bits the set of the bits of the value that are 1; *)
(* tag, value and was are the bit written, the value written and the value *)
(* the bit had; last is how the previous public call ended.  Without tags  *)
(* the controller answers as it likes and nothing is recorded.             *)
(***************************************************************************)
NoController ==
  [mem |-> EmptyDict, tag |-> <<>>, value |-> FALSE, was |-> FALSE,
   last |-> [op |-> "none", kind |-> "none", value |-> <<>>]]

HasTags(plc) == DOMAIN plc.mem # {}

\* Read Modify Write of a tag: (x OR or_mask) AND and_mask on the bytes of
\* the masks, the bytes above them untouched
Masked(cell, data) ==
  [cell EXCEPT !.bits = {k \in (cell.bits \cup data.or_mask) :
                           k >= 8 * data.mask_size \/ k \in data.and_mask}]

\* Write Tag of one value: the bits of a number that is not negative
Stored(cell, data) ==
  [cell EXCEPT !.bits = {k \in 0..30 : (data.value.int \div Pow2(k)) % 2 = 1}]

\* Write Tag Fragmented of an array of numbers: the values of the fragment
\* replace those from byte_offset on
Spliced(cell, arg) ==
  LET from == arg.byte_offset \div DATA_FUNCTION_SIZE[cell.typ]
  IN  [cell EXCEPT !.items =
         [j \in 1..Len(@) |->
            IF j > from /\ j <= from + Len(arg.fragment)
            THEN arg.fragment[j - from].int ELSE @[j]]]

\* the tags after the controller answered r to the request req
Served(plc, req, r) ==
  IF ~HasTags(plc) \/ r.service # req.service \/ r.status # 0 THEN plc
  ELSE IF req.service = "Write Tag Fragmented"
  THEN IF req.arg.tag \in DOMAIN plc.mem
       THEN [plc EXCEPT !.mem[req.arg.tag] = Spliced(@, req.arg)]
       ELSE plc
  ELSE IF req.service \notin {"Read Modify Write Tag", "Write Tag"} THEN plc
  ELSE IF req.arg.requests[1].name \notin DOMAIN plc.mem THEN plc
  ELSE IF req.service = "Write Tag"
  THEN [plc EXCEPT !.mem[req.arg.requests[1].name] = Stored(@, req.arg.requests[1].data)]
  ELSE [plc EXCEPT !.mem[req.arg.requests[1].name] = Masked(@, req.arg.requests[1].data)]

Remembered(plc, res) == IF HasTags(plc) THEN [plc EXCEPT !.last = res] ELSE plc

\* a public call begins: the histories of the call start empty
BeginCall(opened) ==
  /\ Idle
  /\ ops < MaxOps
  /\ ops' = ops + 1
  /\ h_fo' = opened
  /\ h_sent' = <<>>
  /\ h_rx' = <<>>
  /\ h_plc' = Remembered(h_plc, result)

(***************************************************************************)
(* read_array (lines 451-502).                                             *)
(***************************************************************************)
FragBody(dt, data) == [hdr |-> TRUE, dt |-> dt, data |-> data]
NoFragBody == [hdr |-> FALSE, dt |-> 0, data |-> <<>>]

\* lines 462-476: clear(), the session gate, the loop state:
\* [d, connected, opened, raised]
EnterReadArray_keep(d, connected, raw, open_ok) ==
  LET g == SessionGate(connected, open_ok)
      d0 == [d EXCEPT !._status = NoStatus]
  IN  IF ~g.pass
      THEN [d |-> [d0 EXCEPT !._status = <<7, "Target did not connected">>],
            connected |-> g.connected, opened |-> g.opened, raised |-> TRUE]
      ELSE [d |-> [d0 EXCEPT !._output_raw = raw],
            connected |-> g.connected, opened |-> g.opened, raised |-> FALSE]

EnterReadArray(d, connected, raw, open_ok) ==
  LET g == SessionGate(connected, open_ok)
      d0 == [d EXCEPT !._status = NoStatus]
  IN  IF ~g.pass
      THEN [d |-> [d0 EXCEPT !._status = <<7, "Target did not connected">>],
            connected |-> g.connected, opened |-> g.opened, raised |-> TRUE]
      ELSE [d |-> [d0 EXCEPT !._byte_offset = 0,
                             !._last_position = 0,
                             !._output_raw = raw,
                             !._tag_list = <<>>],
            connected |-> g.connected, opened |-> g.opened, raised |-> FALSE]

ReadArrayFrame(tag, counts, raw) ==
  Frame("read_array", "loop", [tag |-> tag, counts |-> counts, raw |-> raw])

read_array_begin(tag, counts, raw, open_ok) ==
  LET e == EnterReadArray(Driver, _target_is_connected, raw, open_ok)
  IN  /\ BeginCall(e.opened)
      /\ _target_is_connected' = e.connected
      /\ UNCHANGED <<_reply, cvars>>
      /\ SetDriver(e.d)
      /\ stack' = IF e.raised THEN <<>> ELSE <<ReadArrayFrame(tag, counts, raw)>>
      /\ result' = IF e.raised THEN Raised("read_array") ELSE InCall("read_array")

\* lines 1054-1058: the characters of the values read_array returned, as
\* character codes; chr() raises outside 0..0x10FFFF
CharCode(v) == IF v < 0 THEN v + 256 ELSE v
ChrRaises(values) ==
  \E j \in 1..Len(values) : CharCode(values[j][2]) < 0 \/ CharCode(values[j][2]) > 1114111
Chars(values) ==
  LET codes == [j \in 1..Len(values) |-> CharCode(values[j][2])]
  IN  SelectSeq(codes, LAMBDA c : c # 0)

\* read_array has ended (kind, value): the result of the public call, which is
\* read_array itself or the read_string that called it (lines 1053-1058)
ReadArrayEnds(kind, value) ==
  IF Len(stack) = 1
  THEN CASE kind = "raise" -> Raised("read_array")
         [] kind = "None" -> ReturnedNone("read_array")
         [] OTHER -> Returned("read_array", value)
  ELSE CASE kind = "raise" -> Raised("read_string")
         [] kind = "None" -> ReturnedNone("read_string")
         [] value = <<>> -> ReturnedNone("read_string")
         [] ChrRaises(value) -> Raised("read_string")
         [] OTHER -> Returned("read_string", Chars(value))

\* lines 478-481: the request path cannot be built
read_array_no_path ==
  /\ Running("read_array")
  /\ create_tag_rp_is_None(Top.arg.tag)
  /\ SetDriver([Driver EXCEPT !._status = <<7, "Cannot create tag request packet">>])
  /\ stack' = <<>>
  /\ result' = ReadArrayEnds("None", <<>>)
  /\ UNCHANGED <<_target_is_connected, _reply, cvars, ops, hvars>>

\* how the loop of lines 477-502 goes on after one request was answered
ReadArrayAfter_none(s) ==
  IF s.raised \/ s.ret = "None" THEN "raise"
  ELSE IF s.d._byte_offset # -1 THEN "loop"
  ELSE IF s.d._status[1] # SUCCESS THEN "None"
  ELSE "return"

ReadArrayAfter(s) ==
  IF s.raised \/ s.ret = "None" THEN "raise"
  ELSE IF s.d._byte_offset # -1 THEN "loop"
  ELSE "return"

\* lines 477-502: one Read Tag Fragmented request and its reply
read_array_round(r) ==
  LET s == send_unit_data(Driver, r)
      after == ReadArrayAfter(s)
  IN  /\ Running("read_array")
      /\ ~create_tag_rp_is_None(Top.arg.tag)
      /\ Exchange(Request("Read Tag Fragmented",
                          [counts |-> Top.arg.counts, byte_offset |-> _byte_offset],
                          _target_is_connected), r)
      /\ SetDriver(s.d)
      /\ stack' = IF after = "loop"
                  THEN Append(Front(stack), [Top EXCEPT !.n = @ + 1])
                  ELSE <<>>
      /\ result' = IF after = "loop" THEN result
                   ELSE ReadArrayEnds(after, s.d._tag_list)
      /\ UNCHANGED <<_target_is_connected, cvars, ops, h_fo>>

(***************************************************************************)
(* Strings are sequences of characters.                                    *)
(***************************************************************************)
Contains(str, pat) ==
  \E i \in 1..(Len(str) - Len(pat) + 1) : SubSeq(str, i, i + Len(pat) - 1) = pat

StartsWith(str, pat) ==
  Len(str) >= Len(pat) /\ SubSeq(str, 1, Len(pat)) = pat

ProgramPrefix == <<"P", "r", "o", "g", "r", "a", "m", ":">>

\* Python's None where a string may stand
PyNone == <<"None">>

(***************************************************************************)
(* Bitwise and of two 16-bit values, and the right shift.                  *)
(***************************************************************************)
RECURSIVE BitAnd(_, _)
BitAnd(a, b) ==
  IF a = 0 \/ b = 0 THEN 0
  ELSE (a % 2) * (b % 2) + 2 * BitAnd(a \div 2, b \div 2)

RECURSIVE ShiftRight(_, _)
ShiftRight(a, n) == IF n = 0 THEN a ELSE ShiftRight(a \div 2, n - 1)

(***************************************************************************)
(* _isolating_user_tag (lines 887-933).  An entry of the raw list is       *)
(* [instance_id, tag_name, symbol_type].                                   *)
(***************************************************************************)
Entry(instance_id, tag_name, symbol_type) ==
  [instance_id |-> instance_id, tag_name |-> tag_name, symbol_type |-> symbol_type]

InstanceListBody(entries, trunc) == [entries |-> entries, trunc |-> trunc]

IsStruct_bit14(symbol_type) == BitAnd(symbol_type, 16384) # 0

\* line 902: symbol_type & 0b1000000000000000
IsStruct(symbol_type) == BitAnd(symbol_type, 32768) # 0

IsSystem_never(symbol_type) == FALSE

\* line 898: symbol_type & 0b0001000000000000
IsSystem(symbol_type) == BitAnd(symbol_type, 4096) # 0

\* line 893
IsProgramName(tag_name) == Contains(tag_name, ProgramPrefix)

\* lines 900-931: the tag an entry that passed the filters becomes; raised when
\* the type code of an atomic entry is no key of I_DATA_TYPE
UserTag(tag) ==
  LET symbol_type == tag.symbol_type
      dimension == ShiftRight(BitAnd(symbol_type, 24576), 13)
      datatype == BitAnd(symbol_type, 255)
  IN  IF IsStruct(symbol_type)
      THEN [raised |-> FALSE,
            tag |-> [instance_id |-> tag.instance_id,
                     template_instance_id |-> BitAnd(symbol_type, 4095),
                     tag_name |-> tag.tag_name,
                     dim |-> dimension,
                     tag_type |-> "struct",
                     data_type |-> "user-created",
                     template |-> EmptyDict,
                     udt |-> EmptyDict]]
      ELSE IF datatype \notin DOMAIN I_DATA_TYPE
      THEN [raised |-> TRUE, tag |-> EmptyDict]
      ELSE IF datatype = S_DATA_TYPE["BOOL"]
      THEN [raised |-> FALSE,
            tag |-> [instance_id |-> tag.instance_id,
                     tag_name |-> tag.tag_name,
                     dim |-> dimension,
                     tag_type |-> "atomic",
                     data_type |-> I_DATA_TYPE[datatype],
                     bit_position |-> ShiftRight(BitAnd(symbol_type, 1792), 8)]]
      ELSE [raised |-> FALSE,
            tag |-> [instance_id |-> tag.instance_id,
                     tag_name |-> tag.tag_name,
                     dim |-> dimension,
                     tag_type |-> "atomic",
                     data_type |-> I_DATA_TYPE[datatype]]]

RECURSIVE IsolateLoop(_, _, _)
\* lines 891-931: lst is what is left of the raw list
IsolateLoop(lst, tl, names) ==
  IF lst = <<>>
  THEN [tag_list |-> tl, program_names |-> names, raised |-> FALSE]
  ELSE LET tag == Head(lst)
       IN  IF IsProgramName(tag.tag_name)
           THEN IsolateLoop(Tail(lst), tl, Append(names, tag.tag_name))
           ELSE IF Contains(tag.tag_name, <<":">>) \/ Contains(tag.tag_name, <<"_", "_">>)
           THEN IsolateLoop(Tail(lst), tl, names)
           ELSE IF IsSystem(tag.symbol_type)
           THEN IsolateLoop(Tail(lst), tl, names)
           ELSE IF UserTag(tag).raised
           THEN [tag_list |-> tl, program_names |-> names, raised |-> TRUE]
           ELSE IsolateLoop(Tail(lst), Append(tl, UserTag(tag).tag), names)

_isolating_user_tag(lst, names) == IsolateLoop(lst, <<>>, names)

(***************************************************************************)
(* get_tag_list (lines 988-1006) and _get_tag_list (lines 1008-1016).      *)
(* Frames: get_tag_list with loc = [tags, k], the list gathered so far and *)
(* the place in _program_names; _get_tag_list with loc = [i], the place in *)
(* _tag_list of the loop of line 1012.                                     *)
(***************************************************************************)
GetTagListFrame(program, pc, tags, k) ==
  [Frame("get_tag_list", pc, [program |-> program])
     EXCEPT !.loc = [tags |-> tags, k |-> k]]

InnerTagListFrame(program, pc, i) ==
  [Frame("_get_tag_list", pc, [program |-> program]) EXCEPT !.loc = [i |-> i]]

\* line 1011
isolating_user_tag ==
  LET u == _isolating_user_tag(_tag_list, _program_names)
  IN  /\ Running("_get_tag_list")
      /\ Top.pc = "isolate"
      /\ _tag_list' = u.tag_list
      /\ _program_names' = u.program_names
      /\ IF u.raised
         THEN /\ stack' = <<>>
              /\ result' = Raised("get_tag_list")
         ELSE /\ stack' = Append(Front(stack), [Top EXCEPT !.pc = "structs", !.loc.i = 1])
              /\ UNCHANGED result
      /\ UNCHANGED <<_target_is_connected, _output_raw, _status, _reply,
                     _more_packets_available, _byte_offset, _last_position,
                     _last_instance, _buffer, _get_template_in_progress,
                     _struct_cache, _template_cache, _udt_cache, ops, hvars>>

(***************************************************************************)
(* The template engine: _get_structure_makeup (lines 803-837),             *)
(* _read_template (lines 839-885), _build_udt (lines 935-975) and          *)
(* _parse_udt_raw (lines 977-986).                                         *)
(*                                                                         *)
(* Template bytes are a sequence of 8-byte blocks.  A block is             *)
(* [array_size, type_code, offset, token]: its three fields when it is     *)
(* read as a member entry (lines 952-971), and the NUL-separated token its *)
(* bytes hold when the buffer is scanned for names (line 938).             *)
(***************************************************************************)
RecursionLimit == 2    \* _build_udt frames Python lets nest

DictSet(dict, key, value) == (key :> value) @@ dict

StructCached_never(cache, instance_id) == FALSE

\* line 807
StructCached(cache, instance_id) == instance_id \in DOMAIN cache

TemplateCached_never(cache, instance_id) == FALSE

\* line 849
TemplateCached(cache, instance_id) == instance_id \in DOMAIN cache

UdtCached_never(cache, instance_id) == FALSE

\* line 978
UdtCached(cache, instance_id) == instance_id \in DOMAIN cache

\* lines 807-837 when the instance is not cached: the gate, one Get Attributes
\* round trip, the cache entry.  [d, cache, connected, opened, sent, raised, value]
MakeupFetched(g, s, d, cache, instance_id) ==
  LET base == [d |-> d, cache |-> cache, connected |-> g.connected,
               opened |-> g.opened, sent |-> <<>>, raised |-> TRUE,
               value |-> EmptyDict]
      req == Request("Get Attributes", [instance |-> instance_id], g.connected)
  IN  IF ~g.pass
      THEN [base EXCEPT !.d = [d EXCEPT !._status = <<10, "Target did not connected">>]]
      ELSE IF s.raised \/ s.ret = "None"
      THEN [base EXCEPT !.d = s.d, !.sent = <<req>>]
      ELSE [base EXCEPT !.d = s.d, !.sent = <<req>>, !.raised = FALSE,
                        !.cache = DictSet(cache, instance_id, s.d._buffer),
                        !.value = s.d._buffer]

FetchStructureMakeup(d, cache, connected, instance_id, r, open_ok) ==
  MakeupFetched(SessionGate(connected, open_ok), send_unit_data(d, r), d, cache,
                instance_id)

\* line 869: the bytes one Read Template request asks for
BytesToRead(object_definition_size, byte_offset) ==
  ((object_definition_size * 4) - 21) - byte_offset

\* pack_uint raises for a value that is no 16-bit unsigned integer
PackUintRaises(v) == v < 0 \/ v > 65535

\* lines 938-949: the name of the structure and its internal tags
RECURSIVE ScanNames(_, _)
ScanNames(data, udt) ==
  IF data = <<>>
  THEN IF udt.name = PyNone
       THEN [udt EXCEPT !.name = <<"Not a user define structure">>]
       ELSE udt
  ELSE LET token == Head(data).token
       IN  IF token.kind = "semi" /\ udt.name = PyNone
           THEN ScanNames(Tail(data), [udt EXCEPT !.name = token.text])
           ELSE IF token.kind = "alnum"
           THEN ScanNames(Tail(data),
                          [udt EXCEPT !.internal_tags = Append(@, token.text)])
           ELSE ScanNames(Tail(data), udt)

\* the frame of a call _build_udt(data, member_count), at the loop of line 951
BuildFrame(data, member_count) ==
  [Frame("_build_udt", "members", [data |-> data, member_count |-> member_count])
     EXCEPT !.loc = [data |-> data, left |-> member_count,
                     template |-> EmptyDict,
                     udt |-> ScanNames(data, [name |-> PyNone,
                                              internal_tags |-> <<>>,
                                              data_type |-> <<>>])]]

ReadTemplateFrame(instance_id, object_definition_size) ==
  Frame("_read_template", "loop",
        [instance_id |-> instance_id,
         object_definition_size |-> object_definition_size])

\* a member type is a string (the name of an atomic type, or 'None') or a
\* nested structure
Str(text) == [kind |-> "str", text |-> text]
Nest(udt) == [kind |-> "udt", udt |-> udt]

\* lines 971-974: the member whose type is data_type is recorded
MemberDone(frame, data_type) ==
  LET block == Head(frame.loc.data)
  IN  [frame EXCEPT !.pc = "members",
                    !.loc.data = Tail(@),
                    !.loc.left = @ - 1,
                    !.loc.udt.data_type =
                       Append(@, <<block.array_size, data_type, block.offset>>)]

BuildDepth(stk) == Cardinality({j \in 1..Len(stk) : stk[j].fn = "_build_udt"})

\* the next structure of the loop of line 1012, from place i on
NextStruct(tl, i) ==
  IF \E j \in i..Len(tl) : tl[j].tag_type = "struct"
  THEN CHOOSE j \in i..Len(tl) :
         /\ tl[j].tag_type = "struct"
         /\ \A m \in i..(j - 1) : tl[m].tag_type # "struct"
  ELSE Len(tl) + 1

(***************************************************************************)
(* How the call goes on below a finished callee.  `below` is the stack     *)
(* without the callee's frame; each operator gives [stack, raised,         *)
(* tag_list, udt_cache]: raised when the exception leaves the public call. *)
(***************************************************************************)
Go(stk, tl, cache) == [stack |-> stk, raised |-> FALSE, tag_list |-> tl, udt_cache |-> cache]
Leave(tl, cache) == [stack |-> <<>>, raised |-> TRUE, tag_list |-> tl, udt_cache |-> cache]

\* an exception reaches the caller: _build_udt catches it at lines 968-969,
\* _parse_udt_raw turns it into DataError (lines 983-984)
AfterException(below, tl, cache) ==
  IF Last(below).fn = "_build_udt"
  THEN Go(Append(Front(below), MemberDone(Last(below), Str("None"))), tl, cache)
  ELSE Leave(tl, cache)

\* _build_udt(data, member_count) is called from the frame on top of below
CallBuildUdt(below, data, member_count, tl, cache) ==
  IF Last(below).fn = "_build_udt" /\ BuildDepth(below) >= RecursionLimit
  THEN AfterException(below, tl, cache)      \* RecursionError
  ELSE Go(Append(below, BuildFrame(data, member_count)), tl, cache)

\* _read_template returned data to the caller (lines 964-965, 980-982)
AfterTemplate(below, data, tl, cache) ==
  LET caller == Last(below)
      template == IF caller.fn = "_build_udt" THEN caller.loc.template
                  ELSE tl[caller.loc.i].template
  IN  IF "member_count" \notin DOMAIN template
      THEN AfterException(below, tl, cache)  \* KeyError
      ELSE CallBuildUdt(below, data, template["member_count"], tl, cache)

\* _build_udt returned udt to the caller (lines 965, 982, 1015)
AfterUdt(below, udt, tl, cache) ==
  LET caller == Last(below)
  IN  IF caller.fn = "_build_udt"
      THEN Go(Append(Front(below), MemberDone(caller, Nest(udt))), tl, cache)
      ELSE LET i == caller.loc.i
               tl1 == [tl EXCEPT ![i].udt = udt]
           IN  Go(Append(Front(below),
                         [caller EXCEPT !.pc = "structs", !.loc.i = i + 1]),
                  tl1, DictSet(cache, tl[i].template_instance_id, udt))

\* _read_template(id, size) is called from the frame on top of below: lines
\* 843-852.  [k, d, connected, opened]
CallReadTemplate(below, d, connected, open_ok, tcache, id, size, tl, cache) ==
  LET g == SessionGate(connected, open_ok)
  IN  IF ~g.pass
      THEN [k |-> AfterException(below, tl, cache),
            d |-> [d EXCEPT !._status = <<10, "Target did not connected">>],
            connected |-> g.connected, opened |-> g.opened]
      ELSE IF TemplateCached(tcache, id)
      THEN [k |-> AfterTemplate(below, tcache[id], tl, cache), d |-> d,
            connected |-> g.connected, opened |-> g.opened]
      ELSE [k |-> Go(Append(below, ReadTemplateFrame(id, size)), tl, cache),
            d |-> [d EXCEPT !._byte_offset = 0, !._buffer = <<>>,
                            !._get_template_in_progress = TRUE],
            connected |-> g.connected, opened |-> g.opened]

\* the state after a step of get_tag_list that went on as k says, with the
\* driver d, after sending the requests `sent` (none or one, answered by r)
Step(d, k, connected, opened, sent, r) ==
  /\ SetDriver([d EXCEPT !._tag_list = k.tag_list])
  /\ stack' = k.stack
  /\ result' = IF k.raised THEN Raised("get_tag_list") ELSE result
  /\ _udt_cache' = k.udt_cache
  /\ _target_is_connected' = connected
  /\ h_fo' = h_fo + opened
  /\ h_sent' = h_sent \o sent
  /\ _reply' = IF sent = <<>> THEN _reply ELSE r
  /\ UNCHANGED <<ops, h_rx, h_plc, _program_names>>

\* the structure the loop of line 1012 stands at, if one is left
AtStruct ==
  /\ Running("_get_tag_list")
  /\ Top.pc = "structs"
  /\ NextStruct(_tag_list, Top.loc.i) <= Len(_tag_list)

\* line 1014, the makeup being cached
tag_template_cached ==
  LET j == NextStruct(_tag_list, Top.loc.i)
      instance_id == _tag_list[j].template_instance_id
      tl == [_tag_list EXCEPT ![j].template = _struct_cache[instance_id]]
  IN  /\ AtStruct
      /\ StructCached(_struct_cache, instance_id)
      /\ Step(Driver,
              Go(Append(Front(stack), [Top EXCEPT !.pc = "udt", !.loc.i = j]),
                 tl, _udt_cache),
              _target_is_connected, 0, <<>>, _reply)
      /\ UNCHANGED <<_struct_cache, _template_cache>>

\* line 1014, the makeup being fetched
TagTemplateFetched(f, j, r) ==
  /\ Step(f.d,
          IF f.raised THEN Leave(_tag_list, _udt_cache)
          ELSE Go(Append(Front(stack), [Top EXCEPT !.pc = "udt", !.loc.i = j]),
                  [_tag_list EXCEPT ![j].template = f.value], _udt_cache),
          f.connected, f.opened, f.sent, r)
  /\ _struct_cache' = f.cache
  /\ UNCHANGED _template_cache

tag_template_fetch(r, open_ok) ==
  /\ AtStruct
  /\ ~StructCached(_struct_cache,
                   _tag_list[NextStruct(_tag_list, Top.loc.i)].template_instance_id)
  /\ TagTemplateFetched(
       FetchStructureMakeup(Driver, _struct_cache, _target_is_connected,
          _tag_list[NextStruct(_tag_list, Top.loc.i)].template_instance_id,
          r, open_ok),
       NextStruct(_tag_list, Top.loc.i), r)

\* line 1015: _parse_udt_raw(tag) up to its call of _read_template
parse_udt_raw(open_ok) ==
  LET i == Top.loc.i
      tag == _tag_list[i]
      instance_id == tag.template_instance_id
      c == CallReadTemplate(Append(Front(stack), [Top EXCEPT !.pc = "udt_wait"]),
                            Driver, _target_is_connected, open_ok, _template_cache,
                            instance_id, tag.template["object_definition_size"],
                            _tag_list, _udt_cache)
  IN  /\ Running("_get_tag_list")
      /\ Top.pc = "udt"
      /\ IF UdtCached(_udt_cache, instance_id)
         THEN Step(Driver,
                   Go(Append(Front(stack),
                             [Top EXCEPT !.pc = "structs", !.loc.i = i + 1]),
                      [_tag_list EXCEPT ![i].udt = _udt_cache[instance_id]],
                      _udt_cache),
                   _target_is_connected, 0, <<>>, _reply)
         ELSE IF "object_definition_size" \notin DOMAIN tag.template
         THEN Step(Driver, Leave(_tag_list, _udt_cache),      \* KeyError
                   _target_is_connected, 0, <<>>, _reply)
         ELSE Step(c.d, c.k, c.connected, c.opened, <<>>, _reply)
      /\ UNCHANGED <<_struct_cache, _template_cache>>

\* lines 855-881: one Read Template request and its reply
read_template_round(r) ==
  LET instance_id == Top.arg.instance_id
      bytes == BytesToRead(Top.arg.object_definition_size, _byte_offset)
      s == send_unit_data(Driver, r)
      below == Front(stack)
      req == Request("Read Template",
                     [instance |-> instance_id, byte_offset |-> _byte_offset,
                      bytes |-> bytes], _target_is_connected)
      ended == ~(s.raised \/ s.ret = "None") /\ ~s.d._get_template_in_progress
  IN  /\ Running("_read_template")
      /\ ~PackUintRaises(bytes)
      /\ Step(s.d,
              IF s.raised \/ s.ret = "None"
              THEN AfterException(below, _tag_list, _udt_cache)
              ELSE IF s.d._get_template_in_progress
              THEN Go(Append(below, [Top EXCEPT !.n = @ + 1]), _tag_list, _udt_cache)
              ELSE AfterTemplate(below, s.d._buffer, _tag_list, _udt_cache),
              _target_is_connected, 0, <<req>>, r)
      /\ _template_cache' = IF ended
                            THEN DictSet(_template_cache, instance_id, s.d._buffer)
                            ELSE _template_cache
      /\ UNCHANGED _struct_cache

\* line 869: the number of bytes to ask for does not fit pack_uint
read_template_pack_error ==
  /\ Running("_read_template")
  /\ PackUintRaises(BytesToRead(Top.arg.object_definition_size, _byte_offset))
  /\ Step(Driver, AfterException(Front(stack), _tag_list, _udt_cache),
          _target_is_connected, 0, <<>>, _reply)
  /\ UNCHANGED <<_struct_cache, _template_cache>>

\* the member the loop of line 951 stands at names a nested template
AtNestedMember ==
  /\ Running("_build_udt")
  /\ Top.loc.left > 0
  /\ Top.loc.data # <<>>
  /\ Head(Top.loc.data).type_code \notin DOMAIN I_DATA_TYPE
  /\ BitAnd(Head(Top.loc.data).type_code, 4095) \notin DOMAIN I_DATA_TYPE

\* lines 963-967, with the makeup of the nested template at hand
Nested(d, connected, template, instance_id, open_ok) ==
  IF "Error" \in DOMAIN template
  THEN [k |-> Go(Append(Front(stack), MemberDone(Top, Str("None"))), _tag_list, _udt_cache),
        d |-> d, connected |-> connected, opened |-> 0]
  ELSE CallReadTemplate(Append(Front(stack),
                               [Top EXCEPT !.pc = "nested", !.loc.template = template]),
                        d, connected, open_ok, _template_cache,
                        instance_id, template["object_definition_size"],
                        _tag_list, _udt_cache)

\* lines 951-975: one member of the loop, or the return of udt, nothing being
\* sent
build_udt_step(open_ok) ==
  LET f == Top
      below == Front(stack)
      code == Head(f.loc.data).type_code
      instance_id == BitAnd(code, 4095)
      n == Nested(Driver, _target_is_connected, _struct_cache[instance_id],
                  instance_id, open_ok)
      here(k) == [k |-> k, d |-> Driver, connected |-> _target_is_connected,
                  opened |-> 0]
      c == IF f.loc.left = 0
           THEN here(AfterUdt(below, f.loc.udt, _tag_list, _udt_cache))
           ELSE IF f.loc.data = <<>>
           THEN here(AfterException(below, _tag_list, _udt_cache))
           ELSE IF code \in DOMAIN I_DATA_TYPE
           THEN here(Go(Append(below, MemberDone(f, Str(I_DATA_TYPE[code]))),
                        _tag_list, _udt_cache))
           ELSE IF instance_id \in DOMAIN I_DATA_TYPE
           THEN here(Go(Append(below, MemberDone(f, Str(I_DATA_TYPE[instance_id]))),
                        _tag_list, _udt_cache))
           ELSE n
  IN  /\ Running("_build_udt")
      /\ AtNestedMember => StructCached(_struct_cache, instance_id)
      /\ Step(c.d, c.k, c.connected, c.opened, <<>>, _reply)
      /\ UNCHANGED <<_struct_cache, _template_cache>>

\* lines 962-969 when the makeup of the nested template has to be fetched
NestedFetched(f, n, r) ==
  /\ IF f.raised
     THEN Step(f.d,
               Go(Append(Front(stack), MemberDone(Top, Str("None"))),
                  _tag_list, _udt_cache),
               f.connected, f.opened, f.sent, r)
     ELSE Step(n.d, n.k, n.connected, f.opened + n.opened, f.sent, r)
  /\ _struct_cache' = f.cache
  /\ UNCHANGED _template_cache

BuildUdtFetched(f, instance_id, r, open_ok) ==
  NestedFetched(f, Nested(f.d, f.connected, f.value, instance_id, open_ok), r)

build_udt_fetch(r, open_ok) ==
  /\ AtNestedMember
  /\ ~StructCached(_struct_cache, BitAnd(Head(Top.loc.data).type_code, 4095))
  /\ BuildUdtFetched(
       FetchStructureMakeup(Driver, _struct_cache, _target_is_connected,
          BitAnd(Head(Top.loc.data).type_code, 4095), r, open_ok),
       BitAnd(Head(Top.loc.data).type_code, 4095), r, open_ok)

(***************************************************************************)
(* get_tag_list (lines 988-1006), _get_tag_list (lines 1008-1016) and the  *)
(* enumeration loop of _get_instance_attribute_list_service (742-801).     *)
(***************************************************************************)
Star == <<"*">>
MaxPrograms == 2    \* entries _program_names comes to hold

\* lines 761-762
Scope(program) ==
  IF program = PyNone THEN PyNone
  ELSE IF StartsWith(program, ProgramPrefix) THEN program
  ELSE ProgramPrefix \o program

\* lines 1009 and 749-757: [d, connected, opened, raised]
StartEnumeration(d, connected, open_ok) ==
  LET g == SessionGate(connected, open_ok)
      d0 == [d EXCEPT !._tag_list = <<>>]
  IN  IF ~g.pass
      THEN [d |-> [d0 EXCEPT !._status = <<10, "Target did not connected">>],
            connected |-> g.connected, opened |-> g.opened, raised |-> TRUE]
      ELSE [d |-> [d0 EXCEPT !._last_instance = 0,
                             !._get_template_in_progress = TRUE],
            connected |-> g.connected, opened |-> g.opened, raised |-> FALSE]

\* lines 997-1006 up to the first request of the first enumeration
get_tag_list_begin(program, open_ok) ==
  LET e == StartEnumeration(Driver, _target_is_connected, open_ok)
  IN  /\ BeginCall(e.opened)
      /\ _target_is_connected' = e.connected
      /\ SetDriver(e.d)
      /\ stack' = IF e.raised THEN <<>>
                  ELSE <<GetTagListFrame(program, "controller", <<>>, 0),
                         InnerTagListFrame(IF program = Star THEN PyNone ELSE program,
                                           "enum", 0)>>
      /\ result' = IF e.raised THEN Raised("get_tag_list") ELSE InCall("get_tag_list")
      /\ UNCHANGED <<_reply, cvars>>

ProgramEntries(lst) ==
  Cardinality({j \in 1..Len(lst) : IsProgramName(lst[j].tag_name)})

\* lines 758-798: one Get Instance Attributes List request and its reply
get_instance_attribute_list_round(r) ==
  LET s == send_unit_data(Driver, r)
      req == Request("Get Instance Attributes List",
                     [program |-> Scope(Top.arg.program), instance |-> _last_instance],
                     _target_is_connected)
  IN  /\ Running("_get_tag_list")
      /\ Top.pc = "enum"
      /\ Len(_program_names) + ProgramEntries(s.d._tag_list) <= MaxPrograms
      /\ _reply' = r
      /\ h_sent' = Append(h_sent, req)
      /\ IF s.raised \/ s.ret = "None"
         THEN /\ SetDriver(s.d)
              /\ stack' = <<>>
              /\ result' = Raised("get_tag_list")
         ELSE IF s.d._last_instance # -1
         THEN /\ SetDriver(s.d)
              /\ stack' = Append(Front(stack), [Top EXCEPT !.n = @ + 1])
              /\ UNCHANGED result
         ELSE /\ SetDriver([s.d EXCEPT !._get_template_in_progress = FALSE])
              /\ stack' = Append(Front(stack), [Top EXCEPT !.pc = "isolate"])
              /\ UNCHANGED result
      /\ UNCHANGED <<_target_is_connected, cvars, ops, h_fo, h_rx, h_plc>>

\* line 1016 and lines 998-1006: _get_tag_list returns its list; get_tag_list
\* returns it, or goes on to the next program
get_tag_list_return(open_ok) ==
  LET outer == stack[1]
      k == outer.loc.k
      prog == _program_names[k]
      renamed == [j \in 1..Len(_tag_list) |->
                    [_tag_list[j] EXCEPT !.tag_name = prog \o <<".">> \o @]]
      first == outer.pc = "controller"
      tags == IF first THEN _tag_list ELSE outer.loc.tags \o renamed
      tl == IF first THEN _tag_list ELSE renamed
      k1 == IF first THEN 1 ELSE k + 1
      e == StartEnumeration([Driver EXCEPT !._tag_list = tl],
                            _target_is_connected, open_ok)
  IN  /\ Running("_get_tag_list")
      /\ Top.pc = "structs"
      /\ NextStruct(_tag_list, Top.loc.i) > Len(_tag_list)
      /\ IF outer.arg.program # Star
         THEN /\ stack' = <<>>
              /\ result' = Returned("get_tag_list", _tag_list)
              /\ SetDriver(Driver)
              /\ UNCHANGED <<_target_is_connected, h_fo>>
         ELSE IF k1 > Len(_program_names)
         THEN /\ stack' = <<>>
              /\ result' = Returned("get_tag_list", tags)
              /\ SetDriver([Driver EXCEPT !._tag_list = tl])
              /\ UNCHANGED <<_target_is_connected, h_fo>>
         ELSE /\ SetDriver(e.d)
              /\ _target_is_connected' = e.connected
              /\ h_fo' = h_fo + e.opened
              /\ stack' = IF e.raised THEN <<>>
                          ELSE <<[outer EXCEPT !.pc = "programs",
                                               !.loc = [tags |-> tags, k |-> k1]],
                                 InnerTagListFrame(_program_names[k1], "enum", 0)>>
              /\ result' = IF e.raised THEN Raised("get_tag_list") ELSE result
      /\ UNCHANGED <<_reply, cvars, ops, h_sent, h_rx, h_plc>>

(***************************************************************************)
(* Tag names with a bit or an index: _prep_bools (lines 504-527) and       *)
(* _dword_to_boolarray (lines 529-532).  A name is a sequence of           *)
(* characters; int() is taken to accept decimal digits only.               *)
(***************************************************************************)
Digits == <<"0", "1", "2", "3", "4", "5", "6", "7", "8", "9">>

IsDigit(ch) == \E k \in 1..10 : Digits[k] = ch
DigitValue(ch) == (CHOOSE k \in 1..10 : Digits[k] = ch) - 1

\* int(str) raises on '' and on anything that is not a digit
IntRaises(str) == str = <<>> \/ \E j \in 1..Len(str) : ~IsDigit(str[j])

RECURSIVE IntOf(_)
IntOf(str) ==
  IF str = <<>> THEN 0 ELSE 10 * IntOf(Front(str)) + DigitValue(Last(str))

\* f'{n}' of a natural number
RECURSIVE DecStr(_)
DecStr(n) ==
  IF n < 10 THEN <<Digits[n + 1]>> ELSE Append(DecStr(n \div 10), Digits[(n % 10) + 1])

\* the position of the last sep in str, 0 when there is none
LastIndexOf(str, sep) ==
  IF \E j \in 1..Len(str) : str[j] = sep
  THEN CHOOSE j \in 1..Len(str) :
         str[j] = sep /\ \A k \in (j + 1)..Len(str) : str[k] # sep
  ELSE 0

\* base, rest = str.rsplit(sep, maxsplit=1): raised when there is no sep
SplitAt(str, j) ==
  [raised |-> j = 0, base |-> SubSeq(str, 1, j - 1),
   rest |-> SubSeq(str, j + 1, Len(str))]

RSplit(str, sep) == SplitAt(str, LastIndexOf(str, sep))

\* a name and the bit that goes with it (has_bit = FALSE: the bit is None)
Named(tag) == [tag |-> tag, has_bit |-> FALSE, bit |-> 0]
NamedBit(tag, bit) == [tag |-> tag, has_bit |-> TRUE, bit |-> bit]

\* lines 514-520, p the split at the last '['
IndexedName(tag, p) ==
  IF p.raised \/ IntRaises(p.rest) THEN Named(tag)
  ELSE NamedBit(p.base \o <<"[">> \o DecStr(IntOf(p.rest) \div 32) \o <<"]">>,
                IntOf(p.rest))

\* lines 522-527, p the split at the last '.'
DottedName(tag, p) ==
  IF p.raised \/ IntRaises(p.rest) THEN Named(tag)
  ELSE NamedBit(p.base, IntOf(p.rest))

_prep_bools(tag, typ, bits_only) ==
  IF typ # "BOOL" THEN Named(tag)
  ELSE IF ~bits_only /\ tag # <<>> /\ Last(tag) = "]"
  THEN IndexedName(tag, RSplit(Front(tag), "["))
  ELSE DottedName(tag, RSplit(tag, "."))

\* lines 530-532, p the split at the last '[': [raised, name]
BoolArrayName(tag, bit, p, tmp) ==
  IF p.raised \/ IntRaises(tmp)
  THEN [raised |-> TRUE, name |-> tag]
  ELSE [raised |-> FALSE,
        name |-> p.base \o <<"[">> \o DecStr((IntOf(tmp) * 32) + bit) \o <<"]">>]

AllButLast(str) == IF str = <<>> THEN <<>> ELSE Front(str)

_dword_to_boolarray(tag, bit) ==
  BoolArrayName(tag, bit, RSplit(tag, "["), AllButLast(RSplit(tag, "[").rest))

(***************************************************************************)
(* Python values where None, a bool or a number may stand.                 *)
(***************************************************************************)
NoneValue == [none |-> TRUE]
BoolValue(b) == [bool |-> b]
IntValue(v) == [int |-> v]

IsNone(x) == "none" \in DOMAIN x

\* what UNPACK_DATA_FUNCTION returned, as a Python value
Unpacked(typ, v) == IF typ = "BOOL" THEN BoolValue(v) ELSE IntValue(v)

\* bits of the integer types that can host a bit
BITS_PER_INT_TYPE == [SINT |-> 8, INT |-> 16, DINT |-> 32]

\* bool(value & (1 << bit)) for a bit below 32, value in two's complement
BitOf(value, bit) ==
  IF bit = 31 THEN value < 0 ELSE ((value \div Pow2(bit)) % 2) = 1

\* lines 265 and 444: [raised, value]
BitValue_anywidth(x, typ, bit) ==
  [raised |-> typ \notin DOMAIN BITS_PER_INT_TYPE, value |-> BoolValue(BitOf(x.int, bit))]

BitValue(x, typ, bit) ==
  IF typ \notin DOMAIN BITS_PER_INT_TYPE
  THEN [raised |-> TRUE, value |-> NoneValue]                       \* KeyError
  ELSE IF bit < BITS_PER_INT_TYPE[typ]
  THEN [raised |-> FALSE, value |-> BoolValue(BitOf(x.int, bit))]
  ELSE [raised |-> FALSE, value |-> NoneValue]

(***************************************************************************)
(* read_tag (lines 364-449) and _parse_multiple_request_read (238-276).    *)
(* The payload of a Read Tag reply is body = [hdr, dt, data] as for a      *)
(* fragment; the payload of a Multiple Service Packet reply is             *)
(* body = [subs], the sub-replies [status, dt, data] in the order of the   *)
(* offset table.                                                           *)
(***************************************************************************)
SubReply(status, dt, data) == [status |-> status, dt |-> dt, data |-> data]
MultiBody(subs) == [subs |-> subs]

\* one round trip that is not part of a read_array
Sent(req, r) ==
  /\ _reply' = r
  /\ h_sent' = Append(h_sent, req)
  /\ h_plc' = Served(h_plc, req, r)
  /\ UNCHANGED h_rx

\* lines 390-405: [raised, tags_read, tag_bits]
RECURSIVE MultiReadLoop(_, _, _)
\* lines 392-400, p the name and bit of the first of tags
MultiReadNext(p, read, tags, tags_read, tag_bits) ==
  IF read /\ create_tag_rp_is_None(p.tag)
  THEN [raised |-> TRUE, tags_read |-> Append(tags_read, p.tag), tag_bits |-> tag_bits]
  ELSE MultiReadLoop(Tail(tags),
                     IF read THEN Append(tags_read, p.tag) ELSE tags_read,
                     tag_bits)

\* lines 393-394
WithBit(p, tag_bits) ==
  IF ~p.has_bit THEN tag_bits
  ELSE IF p.tag \in DOMAIN tag_bits
  THEN DictSet(tag_bits, p.tag, Append(tag_bits[p.tag], p.bit))
  ELSE DictSet(tag_bits, p.tag, <<p.bit>>)

MultiReadTag(p, tags, tags_read, tag_bits) ==
  MultiReadNext(p, ~p.has_bit \/ p.tag \notin DOMAIN tag_bits, tags, tags_read,
                WithBit(p, tag_bits))

MultiReadLoop(tags, tags_read, tag_bits) ==
  IF tags = <<>>
  THEN [raised |-> FALSE, tags_read |-> tags_read, tag_bits |-> tag_bits]
  ELSE MultiReadTag(_prep_bools(Head(tags), "BOOL", TRUE), tags, tags_read, tag_bits)

\* lines 263-266: one tuple for each bit asked of the tag
BitTuples_first(tag, bits, x, typ) ==
  <<<<tag \o <<".">> \o DecStr(bits[1]), BitValue(x, typ, bits[1]).value, "BOOL">>>>

BitTuples(tag, bits, x, typ) ==
  [j \in 1..Len(bits) |->
     <<tag \o <<".">> \o DecStr(bits[j]), BitValue(x, typ, bits[j]).value, "BOOL">>]

\* lines 257-272: [raised, tuples] of one sub-reply, x the value unpacked
SubReplyTuples_skip(sub, tag, tag_bits, typ, x) ==
  IF sub.status # 0
  THEN [raised |-> FALSE, tuples |-> <<>>]
  ELSE IF tag \in DOMAIN tag_bits
  THEN [raised |-> FALSE, tuples |-> BitTuples(tag, tag_bits[tag], x, typ)]
  ELSE [raised |-> FALSE, tuples |-> <<<<tag, x, typ>>>>]

SubReplyTuples(sub, tag, tag_bits, typ, x) ==
  IF sub.status # 0
  THEN [raised |-> FALSE, tuples |-> <<<<tag, NoneValue, NoneValue>>>>]
  ELSE IF tag \in DOMAIN tag_bits
  THEN [raised |-> \E j \in 1..Len(tag_bits[tag]) :
                     BitValue(x, typ, tag_bits[tag][j]).raised,
        tuples |-> BitTuples(tag, tag_bits[tag], x, typ)]
  ELSE [raised |-> FALSE, tuples |-> <<<<tag, x, typ>>>>]

\* the value of a reply of type typ whose bytes are chunk
Value(typ, chunk) == Unpacked(typ, UNPACK_DATA_FUNCTION(typ, chunk))

\* lines 258-261
SubReplyTyped(sub, tag, tag_bits, typ, chunk) ==
  IF sub.status = 0 /\ UnpackRaises(typ, chunk)
  THEN [raised |-> TRUE, tuples |-> <<>>]
  ELSE SubReplyTuples(sub, tag, tag_bits, typ, Value(typ, chunk))

TypeOf(dt) == IF dt \in DOMAIN I_DATA_TYPE THEN I_DATA_TYPE[dt] ELSE "KeyError"
Chunk(data, typ) ==
  IF typ \in DOMAIN DATA_FUNCTION_SIZE THEN Slice(data, 0, DATA_FUNCTION_SIZE[typ])
  ELSE <<>>

SubReplyRead(sub, tag, tag_bits) ==
  IF sub.status = 0 /\ sub.dt \notin DOMAIN I_DATA_TYPE
  THEN [raised |-> TRUE, tuples |-> <<>>]
  ELSE SubReplyTyped(sub, tag, tag_bits, TypeOf(sub.dt), Chunk(sub.data, TypeOf(sub.dt)))

\* lines 252-272: [raised, tag_list]
RECURSIVE MultiReadReplies(_, _, _, _)
MultiReadGoesOn(one, subs, tags, tag_bits, tag_list) ==
  IF one.raised THEN [raised |-> TRUE, tag_list |-> tag_list]
  ELSE MultiReadReplies(Tail(subs), Tail(tags), tag_bits, tag_list \o one.tuples)

MultiReadReplies(subs, tags, tag_bits, tag_list) ==
  IF subs = <<>> THEN [raised |-> FALSE, tag_list |-> tag_list]
  ELSE IF tags = <<>> THEN [raised |-> TRUE, tag_list |-> tag_list]  \* IndexError
  ELSE MultiReadGoesOn(SubReplyRead(Head(subs), Head(tags), tag_bits),
                       subs, tags, tag_bits, tag_list)

_parse_multiple_request_read(r, tags, tag_bits) ==
  MultiReadReplies(r.body.subs, tags, tag_bits, <<>>)

RaisedResult == [kind |-> "raise", value |-> <<>>]
NoneResult == [kind |-> "None", value |-> <<>>]
ValueResult(value) == [kind |-> "return", value |-> value]

\* lines 443-445, b the value of the bit
SingleBit(b, typ) == IF b.raised THEN RaisedResult ELSE ValueResult(<<b.value, typ>>)

\* lines 442-447
SingleValue(x, typ, p) ==
  IF p.has_bit THEN SingleBit(BitValue(x, typ, p.bit), typ)
  ELSE ValueResult(<<x, typ>>)

SingleTyped(typ, chunk, p) ==
  IF UnpackRaises(typ, chunk) THEN RaisedResult
  ELSE SingleValue(Value(typ, chunk), typ, p)

\* lines 438-449: [kind, value] of a single read whose reply was accepted
SingleReadResult(d, r, p) ==
  IF d._status[1] # SUCCESS THEN NoneResult
  ELSE IF ~r.body.hdr \/ r.body.dt \notin DOMAIN I_DATA_TYPE THEN RaisedResult
  ELSE SingleTyped(TypeOf(r.body.dt), Chunk(r.body.data, TypeOf(r.body.dt)), p)

\* lines 377-423: clear(), the session gate, the request:
\* [d, connected, opened, kind, loc] with kind "raise", "None" or "send"
ReadPlan(g, d, kind, loc) ==
  [d |-> d, connected |-> g.connected, opened |-> g.opened, kind |-> kind, loc |-> loc]

NoPath(d0) == [d0 EXCEPT !._status = <<6, "Cannot create tag request packet">>]

\* lines 388-407
MultiReadPlan(g, d0, m) ==
  IF m.raised THEN ReadPlan(g, NoPath(d0), "raise", <<>>)
  ELSE ReadPlan(g, d0, "send", [tags_read |-> m.tags_read, tag_bits |-> m.tag_bits,
                                p |-> Named(<<>>)])

\* lines 410-423
SingleReadPlan(g, d0, p) ==
  IF create_tag_rp_is_None(p.tag) THEN ReadPlan(g, NoPath(d0), "None", <<>>)
  ELSE ReadPlan(g, d0, "send", [tags_read |-> <<p.tag>>, tag_bits |-> EmptyDict,
                                p |-> p])

GatedRead(g, d0, multi, tag) ==
  IF ~g.pass
  THEN ReadPlan(g, [d0 EXCEPT !._status = <<6, "Target did not connected">>],
                "raise", <<>>)
  ELSE IF multi THEN MultiReadPlan(g, d0, MultiReadLoop(tag, <<>>, EmptyDict))
  ELSE SingleReadPlan(g, d0, _prep_bools(tag, "BOOL", TRUE))

EnterReadTag(d, connected, multi, tag, open_ok) ==
  GatedRead(SessionGate(connected, open_ok), [d EXCEPT !._status = NoStatus],
            multi, tag)

ReadTagFrame(multi, tag, loc) ==
  [Frame("read_tag", "send", [multi |-> multi, tag |-> tag]) EXCEPT !.loc = loc]

\* a public call begins with the plan e of its first request
Begins(op, e, frames) ==
  /\ BeginCall(e.opened)
  /\ _target_is_connected' = e.connected
  /\ SetDriver(e.d)
  /\ stack' = IF e.kind = "send" THEN frames ELSE <<>>
  /\ result' = CASE e.kind = "raise" -> Raised(op)
                 [] e.kind = "None" -> ReturnedNone(op)
                 [] OTHER -> InCall(op)
  /\ UNCHANGED <<_reply, cvars>>

ReadTagBegins(e, multi, tag) ==
  Begins("read_tag", e, <<ReadTagFrame(multi, tag, e.loc)>>)

read_tag_begin(multi, tag, open_ok) ==
  ReadTagBegins(EnterReadTag(Driver, _target_is_connected, multi, tag, open_ok),
                multi, tag)

\* lines 435 and 675
ListResult(m) == IF m.raised THEN RaisedResult ELSE ValueResult(m.tag_list)

\* lines 425-449: [kind, value] once the reply r to the request is in
ReadTagResult(s, r, frame) ==
  IF s.raised \/ s.ret = "None" THEN RaisedResult
  ELSE IF frame.arg.multi
  THEN ListResult(_parse_multiple_request_read(r, frame.loc.tags_read,
                                                    frame.loc.tag_bits))
  ELSE SingleReadResult(s.d, r, frame.loc.p)

ReadTagRequest(frame, connected) ==
  Request(IF frame.arg.multi THEN "Multiple Service Packet" ELSE "Read Tag",
          [tags |-> frame.loc.tags_read], connected)

(***************************************************************************)
(* read_string (lines 1043-1058): read_tag of the length unless the caller *)
(* gave it, then read_array of the characters.                             *)
(***************************************************************************)
DataTag(tag) == tag \o <<".", "D", "A", "T", "A">>
LenTag(tag) == tag \o <<".", "L", "E", "N">>

\* line 1052: if length
Truthy(x) ==
  IF "int" \in DOMAIN x THEN x.int # 0
  ELSE IF "bool" \in DOMAIN x THEN x.bool
  ELSE FALSE

\* the number pack_uint(counts) packs (True is 1)
Counts(x) == IF "int" \in DOMAIN x THEN x.int ELSE 1

ReadStringFrame(tag, pc) == Frame("read_string", pc, [tag |-> tag])

\* lines 1053-1058 up to the first request of read_array, e the entry
\* into read_array
ReadStringReads(e, tag, length) ==
  [d |-> e.d, connected |-> e.connected, opened |-> e.opened,
   stack |-> IF e.raised THEN <<>>
             ELSE <<ReadStringFrame(tag, "data"),
                    ReadArrayFrame(DataTag(tag), Counts(length), FALSE)>>,
   result |-> IF e.raised THEN Raised("read_string") ELSE InCall("read_string")]

\* lines 1052-1058 up to the first request of read_array:
\* [d, connected, opened, stack, result]
ReadStringData(d, connected, tag, length, open_ok) ==
  IF ~Truthy(length)
  THEN [d |-> d, connected |-> connected, opened |-> 0, stack |-> <<>>,
        result |-> ReturnedNone("read_string")]
  ELSE ReadStringReads(EnterReadArray(d, connected, FALSE, open_ok), tag, length)

ReadStringBegins(k) ==
  /\ BeginCall(k.opened)
  /\ _target_is_connected' = k.connected
  /\ SetDriver(k.d)
  /\ stack' = k.stack
  /\ result' = k.result
  /\ UNCHANGED <<_reply, cvars>>

\* read_string(tag, str_len) with str_len given
read_string_begin_data(tag, str_len, open_ok) ==
  ReadStringBegins(ReadStringData(Driver, _target_is_connected, tag, str_len, open_ok))

\* read_string(tag): lines 1045-1047 up to the request of read_tag
ReadStringLenBegins(e, tag) ==
  Begins("read_string", e, <<ReadStringFrame(tag, "len"),
                             ReadTagFrame(FALSE, LenTag(tag), e.loc)>>)

read_string_begin_len(tag, open_ok) ==
  ReadStringLenBegins(EnterReadTag(Driver, _target_is_connected, FALSE, LenTag(tag),
                                   open_ok), tag)

\* a call ends (kind "raise", "None" or "return") and with it the public call op
Ends(op, d, out) ==
  /\ SetDriver(d)
  /\ stack' = <<>>
  /\ result' = CASE out.kind = "raise" -> Raised(op)
                 [] out.kind = "None" -> ReturnedNone(op)
                 [] OTHER -> Returned(op, out.value)
  /\ UNCHANGED <<_target_is_connected, h_fo>>

\* a call made by the public call goes on as k says
GoesOn(k) ==
  /\ SetDriver(k.d)
  /\ stack' = k.stack
  /\ result' = k.result
  /\ _target_is_connected' = k.connected
  /\ h_fo' = h_fo + k.opened

\* line 1048: length, _ = tmp or (None, None)
Length(out) == IF out.kind = "return" THEN out.value[1] ELSE NoneValue

\* read_tag returns out to its caller: the user, or read_string
ReadTagReturns(s, out, open_ok) ==
  IF Len(stack) = 1 THEN Ends("read_tag", s.d, out)
  ELSE IF out.kind = "raise" THEN Ends("read_string", s.d, out)
  ELSE GoesOn(ReadStringData(s.d, _target_is_connected, stack[1].arg.tag,
                             Length(out), open_ok))

ReadTagReplied(s, r, open_ok) == ReadTagReturns(s, ReadTagResult(s, r, Top), open_ok)

\* lines 425-449: the Read Tag request and its reply; the call returns to its
\* caller (lines 1047-1053)
read_tag_round(r, open_ok) ==
  /\ Running("read_tag")
  /\ Sent(ReadTagRequest(Top, _target_is_connected), r)
  /\ ReadTagReplied(send_unit_data(Driver, r), r, open_ok)
  /\ UNCHANGED <<cvars, ops>>

(***************************************************************************)
(* write_tag (lines 621-679) with _write_tag_single_write (573-602),       *)
(* _write_tag_multi_write (534-571), _make_write_bit_data (604-619) and    *)
(* _parse_multiple_request_write (278-305).  A tuple to write is           *)
(* <<name, value, typ>>; a mask is the set of its bits that are 1.         *)
(***************************************************************************)
\* PACK_DATA_FUNCTION[typ](value) raises struct.error for None and for a
\* number outside the range of the type; a bool packs as 0 or 1
PackRaises(typ, x) ==
  CASE typ = "BOOL" -> FALSE
    [] IsNone(x) -> TRUE
    [] "bool" \in DOMAIN x -> FALSE
    [] typ = "SINT" -> x.int < -128 \/ x.int > 127
    [] typ = "INT" -> x.int < -32768 \/ x.int > 32767
    [] typ \in {"BYTE", "WORD", "DWORD", "LWORD"} -> x.int < 0
    [] OTHER -> FALSE

\* [raised, mask_size, or_mask, and_mask]; pack_udint raises for 1 << bit
\* when bit is 32 or more
_make_write_bit_data_dword(bit, value, bool_ary) ==
  [raised |-> FALSE, mask_size |-> 4,
   or_mask |-> IF Truthy(value) THEN {bit} ELSE {},
   and_mask |-> (0..31) \ (IF Truthy(value) THEN {} ELSE {bit})]

_make_write_bit_data(bit, value, bool_ary) ==
  LET mask_size == IF bool_ary THEN 4
                   ELSE IF bit < 8 THEN 1 ELSE IF bit < 16 THEN 2 ELSE 4
      b == IF bool_ary THEN bit % 32 ELSE bit
      or_mask == IF Truthy(value) THEN {b} ELSE {}
      and_mask == (0..31) \ (IF Truthy(value) THEN {} ELSE {b})
      low(mask) == {k \in mask : k < 8 * mask_size}
  IN  [raised |-> Truthy(value) /\ b >= 32,
       mask_size |-> mask_size, or_mask |-> low(or_mask), and_mask |-> low(and_mask)]

HasBracket(name) == \E j \in 1..Len(name) : name[j] = "["

\* one request of a write, for the name and bit p: [kind, service, name,
\* data, shown, rename_raised] with kind "none" (no request path), "drop"
\* (LookupError or struct.error) or "ok"; shown is the name that
\* _write_tag_multi_write reports, and rename_raised whether making it raises
WriteRequestOf(p, m, a, value, typ) ==
  [kind |-> IF create_tag_rp_is_None(p.tag) THEN "none"
            ELSE IF p.has_bit THEN (IF m.raised THEN "drop" ELSE "ok")
            ELSE IF typ \notin DOMAIN S_DATA_TYPE THEN "drop"
            ELSE IF PackRaises(typ, value) THEN "drop"
            ELSE "ok",
   service |-> IF p.has_bit THEN "Read Modify Write Tag" ELSE "Write Tag",
   name |-> p.tag,
   data |-> IF p.has_bit
            THEN [mask_size |-> m.mask_size, or_mask |-> m.or_mask,
                  and_mask |-> m.and_mask]
            ELSE [typ |-> typ, value |-> value],
   shown |-> IF ~p.has_bit THEN p.tag
             ELSE IF typ = "BOOL" /\ HasBracket(p.tag) THEN a.name
             ELSE p.tag \o <<".">> \o DecStr(p.bit),
   rename_raised |-> p.has_bit /\ typ = "BOOL" /\ HasBracket(p.tag) /\ a.raised]

WriteRequestFor(p, value, typ) ==
  WriteRequestOf(p, _make_write_bit_data(p.bit, value, HasBracket(p.tag)),
                 _dword_to_boolarray(p.tag, p.bit), value, typ)

\* lines 574-600 and 538-559
WriteRequest(name, value, typ) ==
  WriteRequestFor(_prep_bools(name, typ, FALSE), value, typ)

WireRequest(w) == [service |-> w.service, name |-> w.name, data |-> w.data]

\* lines 537-567: [kind, status, requests, tags_added], kind "none" (the
\* function returned None), "raise" or "ok"; status whether status 8 was set
RECURSIVE MultiWriteLoop(_, _, _, _)
MultiWriteNext(w, tags, status, requests, tags_added) ==
  IF w.kind = "none"
  THEN [kind |-> "none", status |-> TRUE, requests |-> requests,
        tags_added |-> tags_added]
  ELSE IF w.kind = "drop"
  THEN MultiWriteLoop(Tail(tags), TRUE, requests, tags_added)
  ELSE IF w.rename_raised
  THEN [kind |-> "raise", status |-> status, requests |-> requests,
        tags_added |-> tags_added]
  ELSE MultiWriteLoop(Tail(tags), status, Append(requests, WireRequest(w)),
                      Append(tags_added, <<w.shown, Head(tags)[2], Head(tags)[3]>>))

MultiWriteLoop(tags, status, requests, tags_added) ==
  IF tags = <<>>
  THEN [kind |-> "ok", status |-> status, requests |-> requests,
        tags_added |-> tags_added]
  ELSE MultiWriteNext(WriteRequest(Head(tags)[1], Head(tags)[2], Head(tags)[3]),
                      tags, status, requests, tags_added)

\* lines 292-303: [raised, tag_list]
RECURSIVE MultiWriteReplies(_, _, _)
MultiWriteReplies(subs, tags, tag_list) ==
  IF subs = <<>> THEN [raised |-> FALSE, tag_list |-> tag_list]
  ELSE IF tags = <<>> THEN [raised |-> TRUE, tag_list |-> tag_list]  \* IndexError
  ELSE MultiWriteReplies(Tail(subs), Tail(tags),
         Append(tag_list,
                Append(Head(tags), IF Head(subs).status = 0 THEN "GOOD" ELSE "BAD")))

\* the reply is None, or was refused by the encapsulation and has no payload:
\* unpacking the number of sub-replies raises
_parse_multiple_request_write(r, tags) ==
  IF r.cmd = "none" \/ r.encap # SUCCESS
  THEN [raised |-> TRUE, tag_list |-> <<>>]
  ELSE MultiWriteReplies(r.body.subs, tags, <<>>)

\* lines 648-664: clear(), the session gate, the request:
\* [d, connected, opened, kind, loc] with kind "raise" or "send"
WritePlan(g, d, kind, loc) ==
  [d |-> d, connected |-> g.connected, opened |-> g.opened, kind |-> kind, loc |-> loc]

\* lines 657-658: unpacking the None of _write_tag_multi_write raises
MultiWritePlan(g, d0, m) ==
  WritePlan(g, IF m.status THEN [d0 EXCEPT !._status = <<8, "write_tag">>] ELSE d0,
            IF m.kind = "ok" THEN "send" ELSE "raise",
            [service |-> "Multiple Service Packet", requests |-> m.requests,
             tags_added |-> m.tags_added])

\* lines 660-669: b''.join(None) raises when there is no request path
SingleWritePlan(g, d0, w) ==
  WritePlan(g, IF w.kind = "none" THEN [d0 EXCEPT !._status = <<8, "write_tag">>] ELSE d0,
            IF w.kind = "ok" THEN "send" ELSE "raise",
            [service |-> w.service, requests |-> <<WireRequest(w)>>,
             tags_added |-> <<>>])

GatedWrite(g, d0, multi, tag) ==
  IF ~g.pass
  THEN WritePlan(g, [d0 EXCEPT !._status = <<8, "Target did not connected">>],
                 "raise", <<>>)
  ELSE IF multi THEN MultiWritePlan(g, d0, MultiWriteLoop(tag, FALSE, <<>>, <<>>))
  ELSE SingleWritePlan(g, d0, WriteRequest(tag[1], tag[2], tag[3]))

EnterWriteTag(d, connected, multi, tag, open_ok) ==
  GatedWrite(SessionGate(connected, open_ok), [d EXCEPT !._status = NoStatus],
             multi, tag)

WriteTagFrame(multi, tag, loc) ==
  [Frame("write_tag", "send", [multi |-> multi, tag |-> tag]) EXCEPT !.loc = loc]

WriteTagBegins(e, multi, tag) ==
  Begins("write_tag", e, <<WriteTagFrame(multi, tag, e.loc)>>)

write_tag_begin(multi, tag, open_ok) ==
  WriteTagBegins(EnterWriteTag(Driver, _target_is_connected, multi, tag, open_ok),
                 multi, tag)

\* lines 666-679: [kind, value] once the reply r to the request is in
WriteTagResult(s, r, frame) ==
  IF s.raised THEN RaisedResult
  ELSE IF frame.arg.multi
  THEN ListResult(_parse_multiple_request_write(r, frame.loc.tags_added))
  ELSE IF s.ret = "None" THEN RaisedResult
  ELSE ValueResult(<<r>>)

WriteTagRequest(frame, connected) ==
  Request(frame.loc.service, [requests |-> frame.loc.requests], connected)

(***************************************************************************)
(* write_array (lines 681-740).  values is PyList(items), or NotAList for  *)
(* an argument that is no list.                                            *)
(***************************************************************************)
PyList(items) == [list |-> TRUE, items |-> items]
NotAList == [list |-> FALSE, items |-> <<>>]

FragmentBytes == 450

\* elements that fill one fragment (line 710)
PerFragment(data_type) ==
  (FragmentBytes + DATA_FUNCTION_SIZE[data_type] - 1) \div DATA_FUNCTION_SIZE[data_type]

\* lines 706-729: the fragment that starts after the first i values:
\* [raised, end, byte_size]
NextFragment(items, data_type, i) ==
  LET to == IF i + PerFragment(data_type) > Len(items) THEN Len(items)
            ELSE i + PerFragment(data_type)
  IN  [raised |-> \E j \in (i + 1)..to : PackRaises(data_type, items[j]),
       end |-> to,
       byte_size |-> (to - i) * DATA_FUNCTION_SIZE[data_type]]

WriteArrayFrame(tag, values, data_type, f) ==
  [Frame("write_array", "send", [tag |-> tag, values |-> values, data_type |-> data_type])
     EXCEPT !.loc = [from |-> 0, end |-> f.end, byte_offset |-> 0,
                     byte_size |-> f.byte_size]]

\* lines 690-729 up to the first request:
\* [d, connected, opened, kind, frame] with kind "raise", "None" or "send"
ArrayPlan(d, connected, opened, kind, frame) ==
  [d |-> d, connected |-> connected, opened |-> opened, kind |-> kind,
   frame |-> frame]

\* lines 702-729, f the first fragment
FirstFragment(g, d0, tag, values, data_type, f) ==
  IF values.items = <<>> THEN ArrayPlan(d0, g.connected, g.opened, "None", <<>>)
  ELSE IF f.raised THEN ArrayPlan(d0, g.connected, g.opened, "raise", <<>>)
  ELSE IF create_tag_rp_is_None(tag)
  THEN ArrayPlan([d0 EXCEPT !._status = <<9, "Cannot create tag request packet">>],
                 g.connected, g.opened, "None", <<>>)
  ELSE ArrayPlan(d0, g.connected, g.opened, "send",
                 WriteArrayFrame(tag, values, data_type, f))

GatedWriteArray(g, d0, connected, tag, values, data_type) ==
  IF ~values.list
  THEN ArrayPlan([d0 EXCEPT !._status = <<9, "A list of tags must be passed">>],
                 connected, 0, "raise", <<>>)
  ELSE IF ~g.pass
  THEN ArrayPlan([d0 EXCEPT !._status = <<9, "Target did not connected">>],
                 g.connected, g.opened, "raise", <<>>)
  ELSE FirstFragment(g, d0, tag, values, data_type,
                     NextFragment(values.items, data_type, 0))

EnterWriteArray(d, connected, tag, values, data_type, open_ok) ==
  GatedWriteArray(SessionGate(connected, open_ok), [d EXCEPT !._status = NoStatus],
                  connected, tag, values, data_type)

WriteArrayBegins(e) == Begins("write_array", e, <<e.frame>>)

write_array_begin(tag, values, data_type, open_ok) ==
  WriteArrayBegins(EnterWriteArray(Driver, _target_is_connected, tag, values,
                                   data_type, open_ok))

\* the public call that ends when write_array ends: write_array itself or
\* the write_string that called it (line 1041)
WriteArrayCaller == IF Len(stack) = 1 THEN "write_array" ELSE "write_string"

\* line 729 and lines 706-710: the frame of the fragment f that follows
NextWriteArrayFrame_stuck(frame, f) ==
  [frame EXCEPT !.n = @ + 1,
                !.loc = [from |-> frame.loc.end, end |-> f.end,
                         byte_offset |-> frame.loc.byte_offset,
                         byte_size |-> f.byte_size]]

NextWriteArrayFrame(frame, f) ==
  [frame EXCEPT !.n = @ + 1,
                !.loc = [from |-> frame.loc.end, end |-> f.end,
                         byte_offset |-> frame.loc.byte_offset + frame.loc.byte_size,
                         byte_size |-> f.byte_size]]

\* lines 731-740 and the values up to the next request, f the next fragment
WriteArrayReplied(s, f) ==
  /\ SetDriver(s.d)
  /\ IF s.raised \/ s.ret = "None"
     THEN /\ stack' = <<>>
          /\ result' = Raised(WriteArrayCaller)
     ELSE IF Top.loc.end = Len(Top.arg.values.items)
     THEN /\ stack' = <<>>
          /\ result' = ReturnedNone(WriteArrayCaller)
     ELSE IF f.raised
     THEN /\ stack' = <<>>
          /\ result' = Raised(WriteArrayCaller)
     ELSE /\ stack' = Append(Front(stack), NextWriteArrayFrame(Top, f))
          /\ UNCHANGED result

WriteArrayRequest(frame, connected) ==
  Request("Write Tag Fragmented",
          [tag |-> frame.arg.tag, data_type |-> frame.arg.data_type,
           total_count |-> Len(frame.arg.values.items),
           byte_offset |-> frame.loc.byte_offset,
           fragment |-> SubSeq(frame.arg.values.items, frame.loc.from + 1,
                               frame.loc.end)],
          connected)

\* lines 719-740: one Write Tag Fragmented request and its reply
write_array_round(r) ==
  /\ Running("write_array")
  /\ Sent(WriteArrayRequest(Top, _target_is_connected), r)
  /\ WriteArrayReplied(send_unit_data(Driver, r),
                       NextFragment(Top.arg.values.items, Top.arg.data_type, Top.loc.end))
  /\ UNCHANGED <<_target_is_connected, cvars, ops, h_fo>>

(***************************************************************************)
(* write_string (lines 1018-1041): write_tag of the length, then           *)
(* write_array of the characters.  value is the sequence of the character  *)
(* codes of the string.                                                    *)
(***************************************************************************)
\* lines 1028-1034
DataToSend(value, size) ==
  [j \in 1..size |->
     IF j > Len(value) THEN IntValue(0)
     ELSE IntValue(IF value[j] > 127 THEN value[j] - 256 ELSE value[j])]

\* lines 1036-1038
StrLen(value, size) == IF Len(value) > size THEN size ELSE Len(value)

WriteStringFrame(tag, value, size) ==
  Frame("write_string", "len", [tag |-> tag, data_to_send |-> DataToSend(value, size)])

\* lines 1024-1040 up to the request of write_tag
WriteStringBegins(e, tag, value, size) ==
  Begins("write_string", e,
         <<WriteStringFrame(tag, value, size),
           WriteTagFrame(FALSE, <<LenTag(tag), IntValue(StrLen(value, size)), "DINT">>,
                         e.loc)>>)

write_string_begin(tag, value, size, open_ok) ==
  WriteStringBegins(EnterWriteTag(Driver, _target_is_connected, FALSE,
                                  <<LenTag(tag), IntValue(StrLen(value, size)), "DINT">>,
                                  open_ok),
                    tag, value, size)

\* line 1041: write_string goes on with write_array, e the entry into it
WriteStringWrites(e) ==
  [d |-> e.d, connected |-> e.connected, opened |-> e.opened,
   stack |-> IF e.kind = "send" THEN <<stack[1], e.frame>> ELSE <<>>,
   result |-> CASE e.kind = "raise" -> Raised("write_string")
                [] e.kind = "None" -> ReturnedNone("write_string")
                [] OTHER -> result]

\* write_tag returns out to its caller: the user, or write_string
WriteTagReturns(s, out, open_ok) ==
  IF Len(stack) = 1 THEN Ends("write_tag", s.d, out)
  ELSE IF out.kind = "raise" THEN Ends("write_string", s.d, out)
  ELSE GoesOn(WriteStringWrites(
                EnterWriteArray(s.d, _target_is_connected, DataTag(stack[1].arg.tag),
                                PyList(stack[1].arg.data_to_send), "SINT", open_ok)))

WriteTagReplied(s, r, open_ok) == WriteTagReturns(s, WriteTagResult(s, r, Top), open_ok)

\* lines 666-679: the write request and its reply; the call returns to its
\* caller (lines 1040-1041)
write_tag_round(r, open_ok) ==
  /\ Running("write_tag")
  /\ Sent(WriteTagRequest(Top, _target_is_connected), r)
  /\ WriteTagReplied(send_unit_data(Driver, r), r, open_ok)
  /\ UNCHANGED <<cvars, ops>>

(***************************************************************************)
(* Construction (lines 63-73, and Base.__init__).                          *)
(***************************************************************************)
Init ==
  /\ _target_is_connected = FALSE
  /\ _status = NoStatus
  /\ _reply = NoReply
  /\ _more_packets_available = FALSE
  /\ _tag_list = <<>>
  /\ _byte_offset = 0
  /\ _last_position = 0
  /\ _last_instance = 0
  /\ _output_raw = FALSE
  /\ _buffer = EmptyDict
  /\ _get_template_in_progress = FALSE
  /\ _struct_cache = EmptyDict
  /\ _template_cache = EmptyDict
  /\ _udt_cache = EmptyDict
  /\ _program_names = <<>>
  /\ stack = <<>>
  /\ result = [op |-> "none", kind |-> "none", value |-> <<>>]
  /\ ops = 0
  /\ h_sent = <<>>
  /\ h_rx = <<>>
  /\ h_fo = 0
  /\ h_plc = NoController

(***************************************************************************)
(* The array reads alone, against a controller that answers with any       *)
(* status, any of three type codes and any bytes.                          *)
(***************************************************************************)
ArrayTags == {<<"T">>, <<>>}
ArrayTypes == {194, 195, 0}
ArrayBytes == {1, 255}
ArrayBodies ==
  {NoFragBody} \cup
  {FragBody(dt, data) : dt \in ArrayTypes, data \in SeqsUpTo(ArrayBytes, MaxLen)}

NextArray ==
  \/ \E tag \in ArrayTags, raw \in BOOLEAN, open_ok \in BOOLEAN :
       read_array_begin(tag, 2, raw, open_ok)
  \/ read_array_no_path
  \/ /\ Running("read_array")
     /\ \E r \in Replies("Read Tag Fragmented", ArrayBodies, Top.n) :
          read_array_round(r)

SpecArray == Init /\ [][NextArray]_vars

(***************************************************************************)
(* get_tag_list for the controller scope alone, against a controller       *)
(* whose symbols are structures of template 1 and that answers each        *)
(* request with any status and any of a few makeups and template           *)
(* fragments.  A template block is either a DINT member whose bytes also   *)
(* hold the name "U;", or a member of the nested template 2.               *)
(***************************************************************************)
MaxBlocks == 1      \* blocks in one Read Template reply

StructEntry == Entry(1, <<"S">>, 32769)

\* the pages of a reply: no entry, entries, or the bytes of an incomplete one
Pages(entries) ==
  {InstanceListBody(<<>>, TRUE)} \cup
  {InstanceListBody(lst, FALSE) : lst \in SeqsUpTo(entries, MaxPage)}

Makeup(short, fail, object_definition_size, member_count) ==
  [short |-> short, fail |-> fail,
   object_definition_size |-> object_definition_size, structure_size |-> 12,
   member_count |-> member_count, structure_handle |-> 7]

\* too short to unpack; attribute 3 refused; complete, for a template of 11
\* bytes with one member; complete, for a template of no bytes
Makeups ==
  {Makeup(TRUE, 0, 0, 0), Makeup(FALSE, 3, 8, 0), Makeup(FALSE, 0, 8, 1),
   Makeup(FALSE, 0, 5, 1)}

Block(array_size, type_code, offset, token) ==
  [array_size |-> array_size, type_code |-> type_code, offset |-> offset,
   token |-> token]

NamedDint == Block(15189, 196, 0, [kind |-> "semi", text |-> <<"U">>])
NestedMember == Block(1, 32770, 4, [kind |-> "other", text |-> <<>>])

Blocks == {NamedDint, NestedMember}

TemplateBodies(blocks) == {[data |-> data] : data \in SeqsUpTo(blocks, MaxBlocks)}

\* a reply whose status is not SUCCESS: the makeup parser does not read its body
MakeupReplies(makeups) ==
  {NoReply, EncapError("Get Attributes"),
   Reply("Get Attributes", PATH_SEGMENT_ERROR, Makeup(TRUE, 0, 0, 0))} \cup
  {Reply("Get Attributes", SUCCESS, b) : b \in makeups}

\* with status 0x06 and with an error status the loop of _read_template goes on
TemplateReplies(blocks, n) ==
  {NoReply, EncapError("Read Template")} \cup
  {Reply("Read Template", st, b) :
     st \in (IF n < MaxReq THEN StatusU ELSE {SUCCESS}), b \in TemplateBodies(blocks)}

NextTags ==
  \/ \E open_ok \in BOOLEAN : get_tag_list_begin(PyNone, open_ok)
  \/ /\ Running("_get_tag_list")
     /\ \E r \in Replies("Get Instance Attributes List", Pages({StructEntry}), Top.n) :
          get_instance_attribute_list_round(r)
  \/ isolating_user_tag
  \/ \E open_ok \in BOOLEAN : get_tag_list_return(open_ok)
  \/ tag_template_cached
  \/ \E r \in MakeupReplies(Makeups), open_ok \in BOOLEAN : tag_template_fetch(r, open_ok)
  \/ \E open_ok \in BOOLEAN : parse_udt_raw(open_ok)
  \/ /\ Running("_read_template")
     /\ \E r \in TemplateReplies(Blocks, Top.n) : read_template_round(r)
  \/ read_template_pack_error
  \/ \E open_ok \in BOOLEAN : build_udt_step(open_ok)
  \/ \E r \in MakeupReplies(Makeups), open_ok \in BOOLEAN : build_udt_fetch(r, open_ok)

SpecTags == Init /\ [][NextTags]_vars

(***************************************************************************)
(* The enumeration of the symbols alone: get_tag_list for the controller   *)
(* scope, for program M and for '*', against a controller without          *)
(* structures that answers each request with any status and any page of    *)
(* up to MaxPage entries.                                                  *)
(***************************************************************************)
EnumPrograms == {PyNone, Star, <<"M">>}

EnumEntries ==
  {Entry(1, <<"A">>, 196), Entry(5, <<"B">>, 961),
   Entry(9, ProgramPrefix \o <<"M">>, 196)}

NextEnum ==
  \/ \E program \in EnumPrograms, open_ok \in BOOLEAN :
       get_tag_list_begin(program, open_ok)
  \/ /\ Running("_get_tag_list")
     /\ \E r \in Replies("Get Instance Attributes List", Pages(EnumEntries), Top.n) :
          get_instance_attribute_list_round(r)
  \/ isolating_user_tag
  \/ \E open_ok \in BOOLEAN : get_tag_list_return(open_ok)

SpecEnum == Init /\ [][NextEnum]_vars

(***************************************************************************)
(* The client as a whole: every public operation, against a controller     *)
(* that answers each request with a reply lost, a reply with an error      *)
(* status or one of a few well-formed replies.  The symbols of the         *)
(* controller are the structure S of template 1 and the program M.         *)
(***************************************************************************)
T == <<"T">>
TBit == <<"T", ".", "1">>
Flag == <<"F", "[", "3", "3", "]">>

ReadArgs ==
  {[multi |-> FALSE, tag |-> T], [multi |-> FALSE, tag |-> TBit],
   [multi |-> FALSE, tag |-> <<>>],
   [multi |-> TRUE, tag |-> <<T, TBit>>], [multi |-> TRUE, tag |-> <<<<>>>>]}

Dint(v) == <<v, 0, 0, 0>>

\* the Read Tag replies: lost, refused, partial, too short, a DINT 2 and a
\* DINT 0
ReadTagReplies ==
  {NoReply, Reply("Read Tag", PATH_SEGMENT_ERROR, NoFragBody),
   Reply("Read Tag", INSUFFICIENT_PACKET_SPACE, FragBody(196, Dint(2))),
   Reply("Read Tag", SUCCESS, NoFragBody),
   Reply("Read Tag", SUCCESS, FragBody(196, Dint(2))),
   Reply("Read Tag", SUCCESS, FragBody(196, Dint(0)))}

MultiReadAnswers ==
  {NoReply,
   Reply("Multiple Service Packet", SUCCESS,
         MultiBody(<<SubReply(SUCCESS, 196, Dint(2)),
                     SubReply(PATH_SEGMENT_ERROR, 0, <<>>)>>)),
   Reply("Multiple Service Packet", SUCCESS,
         MultiBody(<<SubReply(SUCCESS, 196, Dint(2)), SubReply(SUCCESS, 196, Dint(2)),
                     SubReply(SUCCESS, 196, Dint(2))>>))}

WriteArgs ==
  {[multi |-> FALSE, tag |-> <<T, IntValue(5), "DINT">>],
   [multi |-> FALSE, tag |-> <<Flag, BoolValue(TRUE), "BOOL">>],
   [multi |-> FALSE, tag |-> <<<<>>, IntValue(5), "DINT">>],
   [multi |-> TRUE, tag |-> <<<<T, IntValue(5), "DINT">>, <<T, IntValue(200), "SINT">>,
                              <<Flag, BoolValue(FALSE), "BOOL">>>>],
   [multi |-> TRUE, tag |-> <<<<<<>>, IntValue(5), "DINT">>>>]}

WriteTagReplies(multi) ==
  IF multi
  THEN {NoReply, EncapError("Multiple Service Packet"),
        Reply("Multiple Service Packet", PATH_SEGMENT_ERROR,
              MultiBody(<<SubReply(SUCCESS, 0, <<>>),
                          SubReply(PATH_SEGMENT_ERROR, 0, <<>>)>>)),
        Reply("Multiple Service Packet", SUCCESS,
              MultiBody(<<SubReply(SUCCESS, 0, <<>>), SubReply(SUCCESS, 0, <<>>),
                          SubReply(SUCCESS, 0, <<>>)>>))}
  ELSE {NoReply, Reply("Write Tag", PATH_SEGMENT_ERROR, <<>>),
        Reply("Write Tag", SUCCESS, <<>>)}

\* a list of one fragment, a list of two, the empty list, a value that does
\* not pack, and an argument that is no list
Sints(n) == [j \in 1..n |-> IntValue(1)]
WriteArrays ==
  {PyList(Sints(2)), PyList(Sints(FragmentBytes + 1)), PyList(<<>>),
   PyList(<<IntValue(200)>>), NotAList}

WriteArrayReplies ==
  {NoReply, Reply("Write Tag Fragmented", PATH_SEGMENT_ERROR, <<>>),
   Reply("Write Tag Fragmented", SUCCESS, <<>>)}

\* the string "A", and one longer than the size given
Strings == {<<65>>, <<65, 200, 66>>}
Sizes == {0, 2}

StringBodies == {NoFragBody, FragBody(194, <<65, 0>>), FragBody(194, <<>>)}

ProgramEntry == Entry(9, ProgramPrefix \o <<"M">>, 196)

\* the symbol pages: lost, the program M with more to come, the structure S
SymbolReplies(n) ==
  {NoReply, Reply("Get Instance Attributes List", SUCCESS,
                  InstanceListBody(<<StructEntry>>, FALSE))} \cup
  (IF n < MaxReq
   THEN {Reply("Get Instance Attributes List", INSUFFICIENT_PACKET_SPACE,
               InstanceListBody(<<ProgramEntry>>, FALSE))}
   ELSE {})

\* the makeup of template 1: refused, or 8 words with one member
StructReplies ==
  {Reply("Get Attributes", PATH_SEGMENT_ERROR, Makeup(TRUE, 0, 0, 0)),
   Reply("Get Attributes", SUCCESS, Makeup(FALSE, 0, 8, 1))}

\* the template: lost, or the block of the member U
BlockReplies ==
  {NoReply, Reply("Read Template", SUCCESS, [data |-> <<NamedDint>>])}

Next ==
  \/ \E a \in ReadArgs, open_ok \in BOOLEAN : read_tag_begin(a.multi, a.tag, open_ok)
  \/ /\ Running("read_tag")
     /\ \E r \in (IF Top.arg.multi THEN MultiReadAnswers ELSE ReadTagReplies),
           open_ok \in BOOLEAN : read_tag_round(r, open_ok)
  \/ \E tag \in {T, <<>>}, open_ok \in BOOLEAN : read_array_begin(tag, 2, FALSE, open_ok)
  \/ read_array_no_path
  \/ /\ Running("read_array")
     /\ \E r \in Replies("Read Tag Fragmented", StringBodies, Top.n) :
          read_array_round(r)
  \/ \E str_len \in {IntValue(0), IntValue(2)}, open_ok \in BOOLEAN :
       read_string_begin_data(T, str_len, open_ok)
  \/ \E open_ok \in BOOLEAN : read_string_begin_len(T, open_ok)
  \/ \E a \in WriteArgs, open_ok \in BOOLEAN : write_tag_begin(a.multi, a.tag, open_ok)
  \/ /\ Running("write_tag")
     /\ \E r \in WriteTagReplies(Top.arg.multi), open_ok \in BOOLEAN :
          write_tag_round(r, open_ok)
  \/ \E tag \in {T, <<>>}, values \in WriteArrays, open_ok \in BOOLEAN :
       write_array_begin(tag, values, "SINT", open_ok)
  \/ \E r \in WriteArrayReplies : write_array_round(r)
  \/ \E value \in Strings, size \in Sizes, open_ok \in BOOLEAN :
       write_string_begin(T, value, size, open_ok)
  \/ \E program \in {PyNone, Star}, open_ok \in BOOLEAN :
       get_tag_list_begin(program, open_ok)
  \/ /\ Running("_get_tag_list")
     /\ \E r \in SymbolReplies(Top.n) : get_instance_attribute_list_round(r)
  \/ isolating_user_tag
  \/ \E open_ok \in BOOLEAN : get_tag_list_return(open_ok)
  \/ tag_template_cached
  \/ \E r \in StructReplies, open_ok \in BOOLEAN : tag_template_fetch(r, open_ok)
  \/ \E open_ok \in BOOLEAN : parse_udt_raw(open_ok)
  \/ \E r \in BlockReplies : read_template_round(r)
  \/ \E open_ok \in BOOLEAN : build_udt_step(open_ok)

Spec == Init /\ [][Next]_vars

(***************************************************************************)
(* The tag reads alone: read_tag of one name or of a list of names, among  *)
(* them bits of A, against a controller that answers each sub-request      *)
(* with a SINT 3, a DINT 512 or status 0x04, in replies of any length.     *)
(***************************************************************************)
TagA == <<"A">>
TagB == <<"B">>
BitOfA(n) == TagA \o <<".">> \o DecStr(n)
ReadNames == {TagA, BitOfA(1), BitOfA(9), TagB}

Sint3 == <<3>>
Dint512 == <<0, 2, 0, 0>>
SubReplies ==
  {SubReply(SUCCESS, 194, Sint3), SubReply(SUCCESS, 196, Dint512),
   SubReply(PATH_SEGMENT_ERROR, 0, <<>>)}

ReadRepliesTo(multi) ==
  IF multi
  THEN {NoReply} \cup
       {Reply("Multiple Service Packet", status, MultiBody(subs)) :
          status \in {SUCCESS, PATH_SEGMENT_ERROR},
          subs \in SeqsUpTo(SubReplies, MaxLen)}
  ELSE {NoReply, Reply("Read Tag", PATH_SEGMENT_ERROR, NoFragBody),
        Reply("Read Tag", SUCCESS, FragBody(194, Sint3)),
        Reply("Read Tag", SUCCESS, FragBody(196, Dint512))}

\* the argument of read_tag: a name, or a list of names
ReadTags(multi) ==
  IF multi THEN SeqsUpTo(ReadNames, MaxLen) \ {<<>>} ELSE ReadNames

NextRead ==
  \/ \E multi \in BOOLEAN, open_ok \in BOOLEAN :
       \E tag \in ReadTags(multi) : read_tag_begin(multi, tag, open_ok)
  \/ /\ Running("read_tag")
     /\ \E r \in ReadRepliesTo(Top.arg.multi) : read_tag_round(r, TRUE)

SpecRead == Init /\ [][NextRead]_vars

(***************************************************************************)
(* A bit written and read back: write_tag(tag, value, 'BOOL') and then     *)
(* read_tag(tag), against a controller that holds the tags Counts and      *)
(* Arr[2] (DINT) and the BOOL array Flags, stored as DWORD words, and that *)
(* applies the masks of a Read Modify Write to the word the request path   *)
(* names.  A request is lost or answered from the tags.                    *)
(***************************************************************************)
CountsTag == <<"C", "o", "u", "n", "t", "s">>
Arr2 == <<"A", "r", "r", "[", "2", "]">>
FlagsAt(i) == <<"F", "l", "a", "g", "s", "[">> \o DecStr(i) \o <<"]">>

Counts_3 == CountsTag \o <<".", "3">>
Flags_37 == FlagsAt(37)
Arr2_5 == Arr2 \o <<".", "5">>
BitTags == {Counts_3, Flags_37, Arr2_5}

\* where the controller keeps the bit: the word, and the bit of the word
WordOf(tag) ==
  CASE tag = Counts_3 -> CountsTag
    [] tag = Flags_37 -> FlagsAt(1)
    [] tag = Arr2_5 -> Arr2
BitInWord(tag) ==
  CASE tag = Counts_3 -> 3
    [] tag = Flags_37 -> 5
    [] tag = Arr2_5 -> 5

Cell(typ, bits) == [typ |-> typ, bits |-> bits]

\* the bits 0 and 10 stand for the other bits of a word
OtherBits == {{}, {0}, {0, 10}}

\* the tags when the bit of tag is b and the other bits of every word are
\* rest; long tells whether Flags has a word 37
TagsOf(tag, b, rest, long) ==
  LET at(w) == IF w = WordOf(tag) /\ b THEN rest \cup {BitInWord(tag)} ELSE rest
  IN  (CountsTag :> Cell("DINT", at(CountsTag))) @@ (Arr2 :> Cell("DINT", at(Arr2))) @@
      (FlagsAt(1) :> Cell("DWORD", at(FlagsAt(1)))) @@
      (IF long THEN (FlagsAt(37) :> Cell("DWORD", rest)) ELSE EmptyDict)

\* byte k of a word
ByteAt(bits, k) ==
  LET f[i \in 0..8] ==
        IF i = 8 THEN 0
        ELSE (IF (8 * k) + i \in bits THEN Pow2(i) ELSE 0) + f[i + 1]
  IN  f[0]
BytesOf(cell) == [k \in 1..DATA_FUNCTION_SIZE[cell.typ] |-> ByteAt(cell.bits, k - 1)]

\* the reply of the controller to a request for the word name
Answer(plc, service, name) ==
  IF name \notin DOMAIN plc.mem THEN Reply(service, PATH_SEGMENT_ERROR, NoFragBody)
  ELSE IF service = "Read Tag"
  THEN Reply(service, SUCCESS,
             FragBody(S_DATA_TYPE[plc.mem[name].typ], BytesOf(plc.mem[name])))
  ELSE Reply(service, SUCCESS, NoFragBody)

InitBit ==
  \E tag \in BitTags, value \in BOOLEAN, was \in BOOLEAN, rest \in OtherBits,
     long \in BOOLEAN :
    /\ _target_is_connected = FALSE
    /\ _status = NoStatus
    /\ _reply = NoReply
    /\ _more_packets_available = FALSE
    /\ _tag_list = <<>>
    /\ _byte_offset = 0
    /\ _last_position = 0
    /\ _last_instance = 0
    /\ _output_raw = FALSE
    /\ _buffer = EmptyDict
    /\ _get_template_in_progress = FALSE
    /\ _struct_cache = EmptyDict
    /\ _template_cache = EmptyDict
    /\ _udt_cache = EmptyDict
    /\ _program_names = <<>>
    /\ stack = <<>>
    /\ result = NoController.last
    /\ ops = 0
    /\ h_sent = <<>>
    /\ h_rx = <<>>
    /\ h_fo = 0
    /\ h_plc = [NoController EXCEPT !.mem = TagsOf(tag, was, rest, long),
                                    !.tag = tag, !.value = value, !.was = was]

NextBit ==
  \/ /\ ops = 0
     /\ \E open_ok \in BOOLEAN :
          write_tag_begin(FALSE, <<h_plc.tag, BoolValue(h_plc.value), "BOOL">>, open_ok)
  \/ /\ Running("write_tag")
     /\ \E r \in {NoReply, Answer(h_plc, Top.loc.service, Top.loc.requests[1].name)} :
          write_tag_round(r, TRUE)
  \/ /\ ops = 1
     /\ \E open_ok \in BOOLEAN : read_tag_begin(FALSE, h_plc.tag, open_ok)
  \/ /\ Running("read_tag")
     /\ \E r \in {NoReply, Answer(h_plc, "Read Tag", Top.loc.tags_read[1])} :
          read_tag_round(r, TRUE)

SpecBit == InitBit /\ [][NextBit]_vars

(***************************************************************************)
(* _make_write_bit_data alone: a call for a bit, a boolean and a word x of *)
(* the width of the masks.                                                 *)
(***************************************************************************)
MaxBit == 31

\* the width of the word the masks are made for
MaskBits(bit, bool_ary) ==
  IF bool_ary THEN 32 ELSE IF bit < 8 THEN 8 ELSE IF bit < 16 THEN 16 ELSE 32

\* words of w bits: none set, all set, the bit alone, all but the bit, every
\* second bit
HostWords(bit, w) ==
  {{}, 0..(w - 1), {bit}, (0..(w - 1)) \ {bit}, {k \in 0..(w - 1) : k % 2 = 0}}

InitMask ==
  \E bit \in 0..MaxBit, value \in BOOLEAN, bool_ary \in BOOLEAN :
    \E x \in HostWords(bit, MaskBits(bit, bool_ary)) :
      /\ _target_is_connected = FALSE
      /\ _status = NoStatus
      /\ _reply = NoReply
      /\ _more_packets_available = FALSE
      /\ _tag_list = <<>>
      /\ _byte_offset = 0
      /\ _last_position = 0
      /\ _last_instance = 0
      /\ _output_raw = FALSE
      /\ _buffer = EmptyDict
      /\ _get_template_in_progress = FALSE
      /\ _struct_cache = EmptyDict
      /\ _template_cache = EmptyDict
      /\ _udt_cache = EmptyDict
      /\ _program_names = <<>>
      /\ stack = <<Frame("_make_write_bit_data", "call",
                         [bit |-> bit, value |-> BoolValue(value),
                          bool_ary |-> bool_ary, x |-> x])>>
      /\ result = InCall("_make_write_bit_data")
      /\ ops = 0
      /\ h_sent = <<>>
      /\ h_rx = <<>>
      /\ h_fo = 0
      /\ h_plc = NoController

\* lines 604-619
make_write_bit_data ==
  /\ Running("_make_write_bit_data")
  /\ stack' = <<>>
  /\ result' = Returned("_make_write_bit_data",
                        _make_write_bit_data(Top.arg.bit, Top.arg.value, Top.arg.bool_ary))
  /\ UNCHANGED <<_target_is_connected, _output_raw, pvars, cvars, ops, hvars>>

SpecMask == InitMask /\ [][make_write_bit_data]_vars

(***************************************************************************)
(* The writes of a list alone: write_tag of a list of tuples, among them a *)
(* value that does not pack, a name without request path and a bit.        *)
(***************************************************************************)
WriteTuples ==
  {<<T, IntValue(5), "DINT">>, <<T, IntValue(200), "SINT">>,
   <<<<>>, IntValue(5), "DINT">>, <<TBit, BoolValue(TRUE), "BOOL">>}

WriteSubReplies == {SubReply(SUCCESS, 0, <<>>), SubReply(PATH_SEGMENT_ERROR, 0, <<>>)}

NextWrite ==
  \/ \E tag \in SeqsUpTo(WriteTuples, MaxLen) \ {<<>>}, open_ok \in BOOLEAN :
       write_tag_begin(TRUE, tag, open_ok)
  \/ /\ Running("write_tag")
     /\ \E r \in {NoReply} \cup
                 {Reply("Multiple Service Packet", SUCCESS, MultiBody(subs)) :
                    subs \in SeqsUpTo(WriteSubReplies, MaxLen)} :
          write_tag_round(r, TRUE)

SpecWrite == Init /\ [][NextWrite]_vars

(***************************************************************************)
(* write_array alone: lists of one, two and three fragments of SINT and of *)
(* DINT, the values told apart by their place in the list.                 *)
(***************************************************************************)
Counted(n) == [j \in 1..n |-> IntValue(j % 100)]

ArrayWrites ==
  {[values |-> PyList(Counted(n)), data_type |-> "SINT"] :
     n \in {1, FragmentBytes - 1, FragmentBytes, FragmentBytes + 1,
            2 * FragmentBytes, (2 * FragmentBytes) + 1}} \cup
  {[values |-> PyList(Counted(n)), data_type |-> "DINT"] :
     n \in {1, PerFragment("DINT") - 1, PerFragment("DINT"), PerFragment("DINT") + 1,
            2 * PerFragment("DINT"), (2 * PerFragment("DINT")) + 1}}

NextWriteArray ==
  \/ \E a \in ArrayWrites, open_ok \in BOOLEAN :
       write_array_begin(T, a.values, a.data_type, open_ok)
  \/ \E r \in WriteArrayReplies : write_array_round(r)

SpecWriteArray == Init /\ [][NextWriteArray]_vars

(***************************************************************************)
(* A string written and read back: write_string(T, s, size) and then       *)
(* read_string(T), against a controller that holds T.LEN (DINT) and        *)
(* T.DATA (an array of size SINT) and stores what is written to them.      *)
(* Before the write the string holds size times the letter Z.              *)
(***************************************************************************)
StringCodes == {65, 200}
StringSizes == {1, 2}

StringTags(size) ==
  (LenTag(T) :> Cell("DINT", {k \in 0..30 : (size \div Pow2(k)) % 2 = 1})) @@
  (DataTag(T) :> [typ |-> "SINT", items |-> [j \in 1..size |-> 90]])

\* the bytes of the values of an array of SINT from the byte from on, counts
\* values at most
SintBytes(items, from, counts) ==
  [j \in 1..((IF counts < Len(items) THEN counts ELSE Len(items)) - from) |->
     IF items[from + j] < 0 THEN items[from + j] + 256 ELSE items[from + j]]

\* the reply of the controller to a Read Tag Fragmented of counts values of
\* the array name from the byte from on
AnswerArray(plc, name, counts, from) ==
  IF name \notin DOMAIN plc.mem
  THEN Reply("Read Tag Fragmented", PATH_SEGMENT_ERROR, NoFragBody)
  ELSE Reply("Read Tag Fragmented", SUCCESS,
             FragBody(S_DATA_TYPE[plc.mem[name].typ],
                      SintBytes(plc.mem[name].items, from, counts)))

InitString ==
  \E size \in StringSizes : \E s \in SeqsUpTo(StringCodes, size) :
    /\ _target_is_connected = FALSE
    /\ _status = NoStatus
    /\ _reply = NoReply
    /\ _more_packets_available = FALSE
    /\ _tag_list = <<>>
    /\ _byte_offset = 0
    /\ _last_position = 0
    /\ _last_instance = 0
    /\ _output_raw = FALSE
    /\ _buffer = EmptyDict
    /\ _get_template_in_progress = FALSE
    /\ _struct_cache = EmptyDict
    /\ _template_cache = EmptyDict
    /\ _udt_cache = EmptyDict
    /\ _program_names = <<>>
    /\ stack = <<>>
    /\ result = NoController.last
    /\ ops = 0
    /\ h_sent = <<>>
    /\ h_rx = <<>>
    /\ h_fo = 0
    /\ h_plc = [NoController EXCEPT !.mem = StringTags(size), !.tag = T,
                                    !.value = [s |-> s, size |-> size]]

NextString ==
  \/ /\ ops = 0
     /\ \E open_ok \in BOOLEAN :
          write_string_begin(T, h_plc.value.s, h_plc.value.size, open_ok)
  \/ /\ Running("write_tag")
     /\ \E r \in {NoReply, Answer(h_plc, Top.loc.service, Top.loc.requests[1].name)} :
          write_tag_round(r, TRUE)
  \/ /\ Running("write_array")
     /\ \E r \in {NoReply, Answer(h_plc, "Write Tag Fragmented", Top.arg.tag)} :
          write_array_round(r)
  \/ /\ ops = 1
     /\ \E open_ok \in BOOLEAN : read_string_begin_len(T, open_ok)
  \/ /\ Running("read_tag")
     /\ \E r \in {NoReply, Answer(h_plc, "Read Tag", Top.loc.tags_read[1])} :
          read_tag_round(r, TRUE)
  \/ /\ Running("read_array")
     /\ \E r \in {NoReply, AnswerArray(h_plc, Top.arg.tag, Top.arg.counts, _byte_offset)} :
          read_array_round(r)

SpecString == InitString /\ [][NextString]_vars

(***************************************************************************)
(* The two ways to name a bit of a BOOL array: write_tag('Flags.i', value, *)
(* 'BOOL') or write_tag('Flags[i]', value, 'BOOL'), and then read_tag of   *)
(* the same name, against a controller that holds the words Flags[0] and   *)
(* Flags[1] of the array.                                                  *)
(***************************************************************************)
FlagsDot(i) == <<"F", "l", "a", "g", "s", ".">> \o DecStr(i)

BoolIndices == {5, 31, 32, 37}

InitForms ==
  \E i \in BoolIndices, dotted \in BOOLEAN, value \in BOOLEAN, rest \in OtherBits :
    /\ _target_is_connected = FALSE
    /\ _status = NoStatus
    /\ _reply = NoReply
    /\ _more_packets_available = FALSE
    /\ _tag_list = <<>>
    /\ _byte_offset = 0
    /\ _last_position = 0
    /\ _last_instance = 0
    /\ _output_raw = FALSE
    /\ _buffer = EmptyDict
    /\ _get_template_in_progress = FALSE
    /\ _struct_cache = EmptyDict
    /\ _template_cache = EmptyDict
    /\ _udt_cache = EmptyDict
    /\ _program_names = <<>>
    /\ stack = <<>>
    /\ result = NoController.last
    /\ ops = 0
    /\ h_sent = <<>>
    /\ h_rx = <<>>
    /\ h_fo = 0
    /\ h_plc = [NoController EXCEPT
                  !.mem = (FlagsAt(0) :> Cell("DWORD", rest)) @@
                          (FlagsAt(1) :> Cell("DWORD", rest)),
                  !.tag = IF dotted THEN FlagsDot(i) ELSE FlagsAt(i),
                  !.value = value]

SpecForms == InitForms /\ [][NextBit]_vars

(***************************************************************************)
(* get_tag_list against a controller whose template 1 may hold a member of *)
(* template 1 itself: the symbols are structures of template 1, a template *)
(* block is the named DINT member or a member of template 1.               *)
(***************************************************************************)
SelfMember == Block(1, 32769, 4, [kind |-> "other", text |-> <<>>])

CycleBlocks == {NamedDint, SelfMember}

\* attribute 3 refused; complete, for a template of 11 bytes with one member
CycleMakeups == {Makeup(FALSE, 3, 8, 0), Makeup(FALSE, 0, 8, 1)}

NextCycle ==
  \/ \E open_ok \in BOOLEAN : get_tag_list_begin(PyNone, open_ok)
  \/ /\ Running("_get_tag_list")
     /\ \E r \in Replies("Get Instance Attributes List", Pages({StructEntry}), Top.n) :
          get_instance_attribute_list_round(r)
  \/ isolating_user_tag
  \/ \E open_ok \in BOOLEAN : get_tag_list_return(open_ok)
  \/ tag_template_cached
  \/ \E r \in MakeupReplies(CycleMakeups), open_ok \in BOOLEAN :
       tag_template_fetch(r, open_ok)
  \/ \E open_ok \in BOOLEAN : parse_udt_raw(open_ok)
  \/ /\ Running("_read_template")
     /\ \E r \in TemplateReplies(CycleBlocks, Top.n) : read_template_round(r)
  \/ \E open_ok \in BOOLEAN : build_udt_step(open_ok)

SpecCycle == Init /\ [][NextCycle]_vars

(***************************************************************************)
(* get_tag_list against a controller whose answer to Get Attributes may be *)
(* a reply of another service: the symbols are structures of template 1,   *)
(* whose template is the named DINT member.                                *)
(***************************************************************************)
\* a Read Template reply that arrives when no template is being read
StrayReply == Reply("Read Template", SUCCESS, [data |-> <<NamedDint>>])

StrayMakeupReplies == MakeupReplies({Makeup(FALSE, 0, 8, 1)}) \cup {StrayReply}

NextStray ==
  \/ \E open_ok \in BOOLEAN : get_tag_list_begin(PyNone, open_ok)
  \/ /\ Running("_get_tag_list")
     /\ \E r \in Replies("Get Instance Attributes List", Pages({StructEntry}), Top.n) :
          get_instance_attribute_list_round(r)
  \/ isolating_user_tag
  \/ \E open_ok \in BOOLEAN : get_tag_list_return(open_ok)
  \/ tag_template_cached
  \/ \E r \in StrayMakeupReplies, open_ok \in BOOLEAN : tag_template_fetch(r, open_ok)
  \/ \E open_ok \in BOOLEAN : parse_udt_raw(open_ok)
  \/ /\ Running("_read_template")
     /\ \E r \in TemplateReplies({NamedDint}, Top.n) : read_template_round(r)
  \/ \E open_ok \in BOOLEAN : build_udt_step(open_ok)

SpecStray == Init /\ [][NextStray]_vars

(***************************************************************************)
(* write_tag of a list of bits: elements of the BOOL array Flags below and *)
(* above 32, a bit of an element of the DINT array Arr and a bit of the    *)
(* DINT Counts, the sub-replies any of SUCCESS and path segment error.     *)
(***************************************************************************)
BitWrites ==
  {<<FlagsAt(5), BoolValue(TRUE), "BOOL">>, <<FlagsAt(37), BoolValue(FALSE), "BOOL">>,
   <<Arr2_5, BoolValue(TRUE), "BOOL">>, <<Counts_3, BoolValue(TRUE), "BOOL">>}

NextBitList ==
  \/ \E tag \in SeqsUpTo(BitWrites, MaxLen) \ {<<>>}, open_ok \in BOOLEAN :
       write_tag_begin(TRUE, tag, open_ok)
  \/ /\ Running("write_tag")
     /\ \E r \in {NoReply} \cup
                 {Reply("Multiple Service Packet", SUCCESS, MultiBody(subs)) :
                    subs \in SeqsUpTo(WriteSubReplies, MaxLen)} :
          write_tag_round(r, TRUE)

SpecBitList == Init /\ [][NextBitList]_vars

(***************************************************************************)
(* The pages of the symbol enumeration: get_tag_list for the controller    *)
(* scope against a controller that holds the symbols A (instance 1) and B  *)
(* (instance 5) and answers a request for the instances from i on with a   *)
(* page, possibly empty, of symbols of instance i or more in rising order, *)
(* with status 0x06 or SUCCESS; or the reply is lost.                      *)
(***************************************************************************)
MaxRounds == 2      \* replies with status 0x06 in one enumeration

PagingEntries == {Entry(1, <<"A">>, 196), Entry(5, <<"B">>, 196)}

\* the entries of lst are of instance start or more, in rising order
PageFrom(lst, start) ==
  /\ \A j \in 1..Len(lst) : lst[j].instance_id >= start
  /\ \A j \in 1..(Len(lst) - 1) : lst[j].instance_id < lst[j + 1].instance_id

PagingReplies(start, n) ==
  {NoReply} \cup
  {Reply("Get Instance Attributes List", st, InstanceListBody(lst, FALSE)) :
     st \in (IF n < MaxRounds THEN {SUCCESS, INSUFFICIENT_PACKET_SPACE}
             ELSE {SUCCESS}),
     lst \in {l \in SeqsUpTo(PagingEntries, MaxPage) : PageFrom(l, start)}}

NextPaging ==
  \/ \E open_ok \in BOOLEAN : get_tag_list_begin(PyNone, open_ok)
  \/ /\ Running("_get_tag_list")
     /\ \E r \in PagingReplies(_last_instance, Top.n) :
          get_instance_attribute_list_round(r)
  \/ isolating_user_tag
  \/ \E open_ok \in BOOLEAN : get_tag_list_return(open_ok)

SpecPaging == Init /\ [][NextPaging]_vars

(***************************************************************************)
(* Properties of read_array.                                               *)
(***************************************************************************)
\* the running or last call is a read_array that has ended
ArrayEnded == Idle /\ result.op = "read_array"

\* the byte offsets of the requests of the call, in the order sent
ArrayOffsets == [i \in 1..Len(h_sent) |-> h_sent[i].arg.byte_offset]

\* the reply was taken for a CIP reply (not lost, not refused by the encapsulation)
Answered(r) == r.cmd = "send_unit_data" /\ r.encap = SUCCESS

\* C1: within one read_array exchange the byte_offset of successive Read Tag
\* Fragmented requests never decreases, and the exchange ends as complete
\* (read_array returns its list) only when the last reply carries general
\* status SUCCESS.
C1_OffsetsIncreaseEndOnlyOnSuccess ==
  result.op = "read_array" =>
    /\ \A i, j \in 1..Len(h_sent) : i <= j => ArrayOffsets[i] <= ArrayOffsets[j]
    /\ (Idle /\ result.kind = "return") =>
         (h_rx # <<>> /\ Answered(Last(h_rx)) /\ Last(h_rx).status = SUCCESS)

\* the values one fragment holds, decoded one slice of the type's size at a time
FragmentValues(body) ==
  IF body.data = <<>> THEN <<>>
  ELSE LET typ == I_DATA_TYPE[body.dt]
           size == DATA_FUNCTION_SIZE[typ]
       IN  [i \in 1..(Len(body.data) \div size) |->
              UNPACK_DATA_FUNCTION(typ, SubSeq(body.data, (i - 1) * size + 1, i * size))]

\* k >= 0 replies with status 0x06, then one with SUCCESS
PartialThenSuccess(rx) ==
  /\ rx # <<>>
  /\ \A i \in 1..Len(rx) :
       /\ Answered(rx[i])
       /\ rx[i].status = (IF i = Len(rx) THEN SUCCESS ELSE INSUFFICIENT_PACKET_SPACE)

AllValues(rx) == Flatten([i \in 1..Len(rx) |-> FragmentValues(rx[i].body)])

\* C2: a read_array exchange of k >= 0 replies with status 0x06 and then one
\* with SUCCESS returns one (index, value) tuple per element of the fragments,
\* in arrival order, with the indices 0, 1, ..., N-1.
C2_OneTuplePerElementInOrder ==
  (ArrayEnded /\ result.kind = "return" /\ ~_output_raw /\ PartialThenSuccess(h_rx)) =>
    result.value = [i \in 1..Len(AllValues(h_rx)) |-> <<i - 1, AllValues(h_rx)[i]>>]

\* a list of several elements that came in more than one non-empty fragment
C2_Witness ==
  /\ ArrayEnded /\ result.kind = "return" /\ ~_output_raw
  /\ PartialThenSuccess(h_rx)
  /\ Len(h_rx) >= 2
  /\ \A i \in 1..Len(h_rx) : h_rx[i].body.data # <<>>
  /\ Len(result.value) >= 3

\* C3: when the exchange ends because a fragment reply carries a general status
\* other than SUCCESS or 0x06, read_array does not return the accumulated list.
C3_ErrorStatusReturnsNoList ==
  (ArrayEnded /\ h_rx # <<>> /\ Answered(Last(h_rx))
     /\ Last(h_rx).status \notin {SUCCESS, INSUFFICIENT_PACKET_SPACE}) =>
    result.kind # "return"

(***************************************************************************)
(* The isolation of the user tags alone: the client stands after the       *)
(* enumeration of the controller scope, which one SUCCESS page answered,   *)
(* and _isolating_user_tag runs on the raw list.  The raw list is any one  *)
(* entry with any 16-bit symbol type, or up to two entries of any name     *)
(* kind and some symbol types.                                             *)
(***************************************************************************)
MaxUint16 == 65535

SymNames ==
  {<<"A">>, ProgramPrefix \o <<"M">>, <<"M", ":", "x">>, <<"_", "_", "a">>,
   <<"a", "_", "b">>, <<"x">> \o ProgramPrefix \o <<"y">>}

\* DINT, BOOL at bit 3, a structure of template 1, a system DINT, a DINT array
\* of one dimension, a structure array of three dimensions of template 4095
SymTypes == {196, 961, 32769, 4292, 8388, 61439}

SymLists ==
  {<<Entry(1, <<"A">>, st)>> : st \in 0..MaxUint16} \cup
  {<<Entry(1, n, st)>> : n \in SymNames, st \in SymTypes} \cup
  {<<Entry(1, n1, st1), Entry(2, n2, st2)>> :
     n1 \in SymNames, st1 \in SymTypes, n2 \in SymNames, st2 \in SymTypes}

InitSym ==
  \E lst \in SymLists :
    /\ _target_is_connected = TRUE
    /\ _status = NoStatus
    /\ _reply = Reply("Get Instance Attributes List", SUCCESS,
                      InstanceListBody(lst, FALSE))
    /\ _more_packets_available = FALSE
    /\ _tag_list = lst
    /\ _byte_offset = 0
    /\ _last_position = 0
    /\ _last_instance = -1
    /\ _output_raw = FALSE
    /\ _buffer = EmptyDict
    /\ _get_template_in_progress = FALSE
    /\ _struct_cache = EmptyDict
    /\ _template_cache = EmptyDict
    /\ _udt_cache = EmptyDict
    /\ _program_names = <<>>
    /\ stack = <<GetTagListFrame(PyNone, "controller", <<>>, 0),
                 InnerTagListFrame(PyNone, "isolate", 0)>>
    /\ result = InCall("get_tag_list")
    /\ ops = 1
    /\ h_sent = <<Request("Get Instance Attributes List",
                          [program |-> PyNone, instance |-> 0], TRUE)>>
    /\ h_rx = <<>>
    /\ h_fo = 1
    /\ h_plc = NoController

SpecSym == InitSym /\ [][isolating_user_tag]_vars

(***************************************************************************)
(* Properties of _isolating_user_tag.                                      *)
(***************************************************************************)
\* _isolating_user_tag has returned and nothing ran after it
Isolated == Running("_get_tag_list") /\ Top.pc = "structs" /\ Top.loc.i = 1

\* the raw list of an enumeration that one page answered
RawList == _reply.body.entries

\* the name and bit-12 filters, as the specification states them
NamePasses(name) == ~Contains(name, <<":">>) /\ ~Contains(name, <<"_", "_">>)
PassesFilters(e) == NamePasses(e.tag_name) /\ (e.symbol_type \div 4096) % 2 = 0
Passing == SelectSeq(RawList, PassesFilters)

\* C5: of an entry that passes the name and bit-12 filters, with symbol type S,
\* the tag is a struct iff S & 0x8000 # 0; a struct has template_instance_id =
\* S & 0x0FFF, an atomic tag data_type = I_DATA_TYPE[S & 0xFF]; every tag has
\* dim = (S >> 13) & 3 and an atomic BOOL has bit_position = (S >> 8) & 7.
C5_SymbolTypeDecoded ==
  Isolated =>
    /\ Len(_tag_list) = Len(Passing)
    /\ \A k \in 1..Len(_tag_list) :
         LET S == Passing[k].symbol_type
             t == _tag_list[k]
         IN  /\ (t.tag_type = "struct") <=> (S >= 32768)
             /\ t.tag_type \in {"struct", "atomic"}
             /\ t.tag_type = "struct" => t.template_instance_id = S % 4096
             /\ t.tag_type = "atomic" => t.data_type = I_DATA_TYPE[S % 256]
             /\ t.dim = (S \div 8192) % 4
             /\ (t.tag_type = "atomic" /\ t.data_type = "BOOL") =>
                  t.bit_position = (S \div 256) % 8

\* a struct array, and an atomic BOOL with a bit position, were emitted
C5_WitnessStruct ==
  /\ Isolated /\ Len(_tag_list) = 1
  /\ _tag_list[1].tag_type = "struct" /\ _tag_list[1].template_instance_id = 4095
  /\ _tag_list[1].dim = 3

\* C6: after _isolating_user_tag no emitted tag has ':' or '__' in its name or
\* bit 12 set in its symbol type; every program header of the raw list is in
\* program_names and is not emitted; every other entry that passes the filters
\* is emitted exactly once, in the order of the enumeration.
C6_FilteredInOrder ==
  Isolated =>
    /\ [k \in 1..Len(_tag_list) |-> <<_tag_list[k].instance_id, _tag_list[k].tag_name>>]
         = [k \in 1..Len(Passing) |-> <<Passing[k].instance_id, Passing[k].tag_name>>]
    /\ \A k \in 1..Len(_tag_list) : NamePasses(_tag_list[k].tag_name)
    /\ \A j \in 1..Len(RawList) :
         StartsWith(RawList[j].tag_name, ProgramPrefix) =>
           /\ \E m \in 1..Len(_program_names) : _program_names[m] = RawList[j].tag_name
           /\ \A k \in 1..Len(_tag_list) :
                _tag_list[k].instance_id # RawList[j].instance_id

\* a program header and a user tag in one list: the header went to
\* program_names, the tag was emitted
C6_Witness ==
  /\ Isolated
  /\ Len(RawList) = 2
  /\ StartsWith(RawList[1].tag_name, ProgramPrefix)
  /\ _program_names = <<RawList[1].tag_name>>
  /\ Len(_tag_list) = 1 /\ _tag_list[1].instance_id = 2

(***************************************************************************)
(* Properties of the symbol enumeration.                                   *)
(***************************************************************************)
\* the step sends a request
Sends == Len(h_sent') = Len(h_sent) + 1

\* the step is one round of the loop of lines 758-796
EnumRound == Running("_get_tag_list") /\ Top.pc = "enum" /\ Sends

\* the place the call stands at after the step
NextPc == IF stack' = <<>> THEN "none" ELSE stack'[Len(stack')].pc

\* C4: the first Get Instance Attributes List request of an enumeration carries
\* instance 0; after a page with status 0x06 the next request carries the
\* instance id of the last entry of that page + 1; after SUCCESS no further
\* request is sent and last_instance = -1; after any other status an error is
\* recorded and no further request is sent; the entries of the pages are
\* accumulated in order.
C4_SymbolPaging ==
  [][EnumRound =>
       LET req == Last(h_sent')
           r == _reply'
       IN  /\ req.service = "Get Instance Attributes List"
           /\ (Top.n = 0) => (req.arg.instance = 0)
           /\ (Top.n > 0) =>
                /\ Answered(_reply) /\ _reply.status = INSUFFICIENT_PACKET_SPACE
                /\ (_reply.body.entries # <<>>) =>
                     (req.arg.instance = Last(_reply.body.entries).instance_id + 1)
           /\ (Answered(r) /\ ~r.body.trunc) =>
                /\ _tag_list' = _tag_list \o r.body.entries
                /\ (r.status = SUCCESS) =>
                     (_last_instance' = -1 /\ NextPc = "isolate")
                /\ (r.status = INSUFFICIENT_PACKET_SPACE) => (NextPc = "enum")
                /\ (r.status \notin {SUCCESS, INSUFFICIENT_PACKET_SPACE}) =>
                     (_status'[1] # SUCCESS /\ NextPc = "isolate")]_vars

\* two pages, the first with status 0x06 and ending at instance 5, the second,
\* asked for from instance 6 on, with SUCCESS
C4_Witness ==
  /\ Running("_get_tag_list") /\ Top.pc = "isolate"
  /\ Len(h_sent) = 2
  /\ h_sent[1].arg.instance = 0 /\ h_sent[2].arg.instance = 6
  /\ _reply.status = SUCCESS
  /\ Len(_tag_list) = 2 /\ _tag_list[1].instance_id = 5
  /\ _last_instance = -1

(***************************************************************************)
(* Properties of the structures of get_tag_list.                           *)
(***************************************************************************)
TagsEnded == Idle /\ result.op = "get_tag_list"

StructTags(tl) ==
  {j \in 1..Len(tl) : "tag_type" \in DOMAIN tl[j] /\ tl[j].tag_type = "struct"}

\* C7: every struct tag of a list get_tag_list returns has template_instance_id
\* = symbol_type & 0x0FFF and its template and udt filled in or marked Error;
\* and when Get Attributes fails for the template of a struct tag, get_tag_list
\* still returns the list.
C7_StructTagsFilledOrError ==
  TagsEnded =>
    /\ (result.kind = "return") =>
         \A j \in StructTags(result.value) :
           /\ result.value[j].template_instance_id = StructEntry.symbol_type % 4096
           /\ DOMAIN result.value[j].template # {}
           /\ DOMAIN result.value[j].udt # {}
    /\ (\E j \in StructTags(_tag_list) : "Error" \in DOMAIN _tag_list[j].template) =>
         (result.kind = "return")

\* the step sends a request of the service for the instance
SendsFor(service, instance_id) ==
  /\ Sends
  /\ Last(h_sent').service = service
  /\ Last(h_sent').arg.instance = instance_id

\* what _get_structure_makeup returned for the structures of the list is what
\* the cache holds
MakeupFromCache ==
  (result.op = "get_tag_list" /\ ~Idle /\ Top.fn # "get_tag_list"
     /\ stack[2].pc \notin {"enum", "isolate"}) =>
    \A j \in StructTags(_tag_list) :
      (DOMAIN _tag_list[j].template # {}) =>
        /\ _tag_list[j].template_instance_id \in DOMAIN _struct_cache
        /\ _tag_list[j].template = _struct_cache[_tag_list[j].template_instance_id]

\* a cached instance is not asked for again
NoResend ==
  /\ \A i \in DOMAIN _struct_cache : ~SendsFor("Get Attributes", i)
  /\ \A i \in DOMAIN _template_cache : ~SendsFor("Read Template", i)

C9_CachesGrowOnly ==
  [][/\ \A i \in DOMAIN _struct_cache :
          i \in DOMAIN _struct_cache' /\ _struct_cache'[i] = _struct_cache[i]
     /\ \A i \in DOMAIN _template_cache :
          i \in DOMAIN _template_cache' /\ _template_cache'[i] = _template_cache[i]
     /\ \A i \in DOMAIN _udt_cache :
          i \in DOMAIN _udt_cache' /\ _udt_cache'[i] = _udt_cache[i]
     /\ Len(_program_names') >= Len(_program_names)
     /\ SubSeq(_program_names', 1, Len(_program_names)) = _program_names]_vars

\* a second get_tag_list finds the makeup of instance 1 in _struct_cache, so
\* that it stands at the tag's udt without having asked for the makeup, with
\* the program name and the caches the first call left
C9_Witness ==
  /\ ops = 2
  /\ Running("_get_tag_list")
  /\ Top.pc = "udt"
  /\ \A j \in 1..Len(h_sent) : h_sent[j].service # "Get Attributes"
  /\ DOMAIN _struct_cache # {}
  /\ DOMAIN _template_cache # {}
  /\ DOMAIN _udt_cache # {}
  /\ _program_names # <<>>

\* C10 as stated: no request goes out on a closed session, and every operation
\* that finds the session closed calls forward_open exactly once, raising and
\* sending nothing when that call fails.
C10_EveryCallOpensOnce ==
  /\ \A j \in 1..Len(h_sent) : h_sent[j].connected
  /\ h_fo <= 1
  /\ (ops > 0 /\ ~_target_is_connected) =>
        (h_fo = 1 /\ result.kind = "raise" /\ h_sent = <<>>)

\* C10: no operation sends a request through send_unit_data while
\* _target_is_connected is false; an operation that comes to its session gate
\* with the session closed calls forward_open once and no more, and when that
\* call fails the operation raises having sent no request.  Two calls end on
\* their arguments before any gate, with no forward_open and no request:
\* write_array with values that are no list (it raises, lines 691-694) and
\* read_string with a length given as zero (it returns None, line 1052).
C10_SessionGate ==
  /\ \A j \in 1..Len(h_sent) : h_sent[j].connected
  /\ h_sent # <<>> => _target_is_connected
  /\ h_fo <= 1
  /\ (ops > 0 /\ ~_target_is_connected) =>
        /\ Idle
        /\ h_sent = <<>>
        /\ h_fo = 1 => result.kind = "raise"
        /\ h_fo = 0 =>
              \/ result = Raised("write_array")
              \/ result = ReturnedNone("read_string")

\* write_string on a closed session: forward_open was called once, by its
\* write_tag, and both requests went out on the session it opened
C10_Witness ==
  /\ result.op = "write_string"
  /\ Idle
  /\ h_fo = 1
  /\ Len(h_sent) = 2
  /\ \A j \in 1..Len(h_sent) : h_sent[j].connected

\* forward_open failed: the operation raised and sent nothing
C10_WitnessRefused ==
  /\ ops > 0
  /\ ~_target_is_connected
  /\ h_fo = 1
  /\ result.kind = "raise"
  /\ h_sent = <<>>

\* the status codes a public call itself records before its first request
OwnCodes ==
  [read_tag |-> {6}, read_array |-> {7}, write_tag |-> {8}, write_array |-> {9},
   get_tag_list |-> {10}, read_string |-> {6, 7}, write_string |-> {8, 9}]

\* C11: _status is cleared at the start of every public call: once a call has
\* begun, _status is clear or is a status this call recorded itself; the
\* status of an earlier failed call is not visible any more.
C11_StatusClearedAtStart ==
  [][ops' = ops + 1 =>
       (_status' = NoStatus \/ _status'[1] \in OwnCodes[result'.op])]_vars

\* the step sends a request, and send_unit_data returns None for the reply
SendReturnsNone ==
  /\ Sends
  /\ ~send_unit_data(Driver, _reply').raised
  /\ send_unit_data(Driver, _reply').ret = "None"

\* C12: whenever send_unit_data returns None the public call raises at once: it
\* ends with an exception, sends no further request and returns no result.
C12_NoneReplyRaises ==
  [][SendReturnsNone => (stack' = <<>> /\ result'.kind = "raise")]_vars

\* a reply that passed the encapsulation with CIP general status 0x06
PartialReply(r) ==
  r.cmd = "send_unit_data" /\ r.encap = SUCCESS /\ r.status = INSUFFICIENT_PACKET_SPACE

\* what the dispatcher makes of the reply of this step
Checked == send_unit_data(Driver, _reply')

\* C13: for every reply with general status 0x06, whichever service it
\* answers, the dispatcher leaves _more_packets_available true, records no
\* error in _status and does not report a failure to the caller.
C13_PartialReplyIsNoError ==
  [][(Sends /\ PartialReply(_reply') /\ ~Checked.raised) =>
       /\ Checked.d._more_packets_available
       /\ Checked.d._status = _status
       /\ Checked.ret # "None"]_vars

(***************************************************************************)
(* Properties of read_tag.                                                 *)
(***************************************************************************)
\* the step in which a read_tag of a list returns its result
MultiReadReturns ==
  /\ Running("read_tag") /\ Top.arg.multi
  /\ Sends /\ stack' = <<>> /\ result'.kind = "return"

Requested == Top.arg.tag
SubRequests == Last(h_sent').arg.tags
SubResponses == _reply'.body.subs
NamesOf(tuples) == [j \in 1..Len(tuples) |-> tuples[j][1]]

\* the base and the bit of a requested name
BaseOf(name) == _prep_bools(name, "BOOL", TRUE).tag
HasBit(name) == _prep_bools(name, "BOOL", TRUE).has_bit
WithBitsOf(base) == SelectSeq(Requested, LAMBDA t : HasBit(t) /\ BaseOf(t) = base)

\* the entries a sub-request is owed to: every entry but a bit of a base of
\* which an earlier entry asks a bit
Asked ==
  {i \in 1..Len(Requested) :
     HasBit(Requested[i]) =>
       \A k \in 1..(i - 1) :
         ~(HasBit(Requested[k]) /\ BaseOf(Requested[k]) = BaseOf(Requested[i]))}
NthAsked(j) == CHOOSE i \in Asked : Cardinality({k \in Asked : k <= i}) = j

\* the names the j-th sub-response answers
AnsweredBy(j) ==
  IF SubResponses[j].status # 0 \/ WithBitsOf(SubRequests[j]) = <<>>
  THEN <<SubRequests[j]>>
  ELSE WithBitsOf(SubRequests[j])

\* C14 as stated: a reply with n sub-responses gives n tuples, the j-th named
\* as the j-th tag of the request list.
C14_OneTuplePerSubResponse ==
  [][MultiReadReturns =>
       /\ Len(result'.value) = Len(SubResponses)
       /\ \A j \in 1..Len(SubResponses) : result'.value[j][1] = Requested[j]]_vars

\* C14: a multi read_tag sends, in the order of the request list, one
\* sub-request for each entry but a bit of a base of which an earlier entry
\* asks a bit; of a reply with n sub-responses it returns, in the order of
\* the sub-responses, one tuple for a sub-response that failed or of whose
\* base no bit is asked, and one tuple for each requested bit of the base,
\* in request order, for any other.
C14_TuplesInSubResponseOrder ==
  [][MultiReadReturns =>
       /\ SubRequests =
            [j \in 1..Cardinality(Asked) |-> BaseOf(Requested[NthAsked(j)])]
       /\ Len(SubResponses) <= Len(SubRequests)
       /\ NamesOf(result'.value) =
            Flatten([j \in 1..Len(SubResponses) |-> AnsweredBy(j)])]_vars

\* read_tag(['A.1', 'A.9']) has sent one sub-request and returned two tuples
C14_Witness ==
  /\ Idle /\ result.op = "read_tag" /\ result.kind = "return"
  /\ Len(h_sent) = 1 /\ h_sent[1].service = "Multiple Service Packet"
  /\ h_sent[1].arg.tags = <<TagA>>
  /\ NamesOf(result.value) = <<BitOfA(1), BitOfA(9)>>

\* every sub-request is answered, and with status 0
AllSucceeded ==
  /\ Len(SubResponses) = Len(SubRequests)
  /\ \A j \in 1..Len(SubResponses) : SubResponses[j].status = 0

Distinct(s) == \A i, j \in 1..Len(s) : s[i] = s[j] => i = j
Occurs(s, x) == Cardinality({i \in 1..Len(s) : s[i] = x})

\* C15 as stated: when every sub-response of a multi read_tag of distinct
\* entries succeeds, each requested entry is answered by exactly one tuple
\* (of type 'BOOL' for 'base.N'), also when a base is requested both plainly
\* and with a bit suffix, and one sub-request is sent per distinct base.
C15_EveryEntryAnsweredOnce ==
  [][(MultiReadReturns /\ Distinct(Requested) /\ AllSucceeded) =>
       /\ \A i \in 1..Len(Requested) :
            Occurs(NamesOf(result'.value), Requested[i]) = 1
       /\ \A j \in 1..Len(result'.value) :
            HasBit(result'.value[j][1]) => result'.value[j][3] = "BOOL"
       /\ Len(SubRequests) =
            Cardinality({BaseOf(Requested[i]) : i \in 1..Len(Requested)})]_vars

\* the step in which a multi read_tag receives a Multiple Service Packet
\* reply that the dispatcher accepts
MultiReadAnswered ==
  /\ Running("read_tag") /\ Top.arg.multi /\ Sends
  /\ _reply'.service = "Multiple Service Packet" /\ _reply'.status = SUCCESS
  /\ Len(SubResponses) <= Len(SubRequests)

\* what a sub-response of status 0 carries: the type name, the integer, and
\* bit n of it
TypeIn(sub) == I_DATA_TYPE[sub.dt]
IntegerIn(sub) == SignedLittleEndian(sub.data)
BitIn(sub, n) ==
  IF n < BITS_PER_INT_TYPE[TypeIn(sub)]
  THEN BoolValue((IntegerIn(sub) \div Pow2(n)) % 2 = 1)
  ELSE NoneValue

BitAsked(name) == _prep_bools(name, "BOOL", TRUE).bit

\* the tuples of the j-th sub-response, from that sub-response alone
Decoded(j) ==
  LET sub  == SubResponses[j]
      asked == WithBitsOf(SubRequests[j])
  IN  IF sub.status # 0 THEN <<<<SubRequests[j], NoneValue, NoneValue>>>>
      ELSE IF asked = <<>>
      THEN <<<<SubRequests[j], IntValue(IntegerIn(sub)), TypeIn(sub)>>>>
      ELSE [k \in 1..Len(asked) |->
              <<asked[k], BitIn(sub, BitAsked(asked[k])), "BOOL">>]

\* C16: in a multi read_tag whose reply is accepted, a sub-response of
\* non-zero status gives (name, None, None) in its own place and every
\* other sub-response is decoded from its own bytes; the call returns.
C16_FailedSubResponseIsLocal ==
  [][MultiReadAnswered =>
       /\ stack' = <<>> /\ result'.kind = "return"
       /\ result'.value =
            Flatten([j \in 1..Len(SubResponses) |-> Decoded(j)])]_vars

\* read_tag(['A', 'B']): the sub-request of A failed, B is decoded
C16_Witness ==
  /\ Idle /\ result.op = "read_tag" /\ result.kind = "return"
  /\ Len(h_sent) = 1 /\ h_sent[1].service = "Multiple Service Packet"
  /\ result.value =
       <<<<TagA, NoneValue, NoneValue>>, <<TagB, IntValue(512), "DINT">>>>

\* the step in which a single read_tag of a bit receives a Read Tag reply
\* that the dispatcher accepts
BitReadAnswered ==
  /\ Running("read_tag") /\ ~Top.arg.multi /\ HasBit(Top.arg.tag) /\ Sends
  /\ _reply'.service = "Read Tag" /\ _reply'.status = SUCCESS

\* the bit tuples a multi read_tag owes to its successful sub-responses
BitsOwed ==
  UNION {{<<WithBitsOf(SubRequests[j])[k],
            BitIn(SubResponses[j], BitAsked(WithBitsOf(SubRequests[j])[k])),
            "BOOL">> : k \in 1..Len(WithBitsOf(SubRequests[j]))} :
         j \in {i \in 1..Len(SubResponses) : SubResponses[i].status = 0}}

BitsGiven(tuples) == {tuples[j] : j \in {i \in 1..Len(tuples) : HasBit(tuples[i][1])}}

\* C17: a read of bit N of an integer host, single or within a multi
\* read_tag, gives the boolean (value >> N) & 1 when N is below the width of
\* the host type and None otherwise.
C17_BitWithinHostWidth ==
  [][/\ BitReadAnswered =>
          /\ stack' = <<>> /\ result'.kind = "return"
          /\ result'.value =
               <<BitIn(_reply'.body, BitAsked(Top.arg.tag)), TypeIn(_reply'.body)>>
     /\ MultiReadAnswered => BitsGiven(result'.value) = BitsOwed]_vars

\* read_tag(['A.1', 'A.9']) of the SINT 3: bit 1 is True, bit 9 is None
C17_Witness ==
  /\ Idle /\ result.op = "read_tag" /\ result.kind = "return"
  /\ Len(h_sent) = 1 /\ h_sent[1].service = "Multiple Service Packet"
  /\ result.value =
       <<<<BitOfA(1), BoolValue(TRUE), "BOOL">>, <<BitOfA(9), NoneValue, "BOOL">>>>

(***************************************************************************)
(* Properties of write_tag.                                                *)
(***************************************************************************)
\* C18: for a bit b of 0..31 and a boolean v, _make_write_bit_data gives
\* mask_size 4 for a BOOL-array element and else 1, 2 or 4 as b is below 8,
\* below 16 or not; or_mask has bit b alone when v and no bit otherwise;
\* and_mask has every bit of its mask_size bytes but b when v is false and
\* every bit otherwise; (x OR or_mask) AND and_mask is x with bit b set to v.
C18_MasksSetOneBit ==
  [][Running("_make_write_bit_data") =>
       LET a == Top.arg
           v == a.value.bool
           w == MaskBits(a.bit, a.bool_ary)
           m == result'.value
       IN  /\ ~m.raised
           /\ 8 * m.mask_size = w
           /\ m.or_mask = IF v THEN {a.bit} ELSE {}
           /\ m.and_mask = (0..(w - 1)) \ (IF v THEN {} ELSE {a.bit})
           /\ Masked(Cell("DWORD", a.x), m).bits =
                IF v THEN a.x \cup {a.bit} ELSE a.x \ {a.bit}]_vars

\* the masks that clear bit 9 of a word of two bytes
C18_Witness ==
  /\ Idle /\ result.op = "_make_write_bit_data" /\ result.kind = "return"
  /\ result.value.mask_size = 2
  /\ result.value.or_mask = {}
  /\ result.value.and_mask = (0..15) \ {9}

\* the step in which the read_tag that follows the write is answered
ReadsBack == Running("read_tag") /\ ops = 2 /\ Sends /\ _reply' # NoReply

WriteReportedSuccess == h_plc.last.op = "write_tag" /\ h_plc.last.kind = "return"
ReadReturned(v) == result'.kind = "return" /\ result'.value[1] = BoolValue(v)

\* C19 as stated, for a bit that did not already hold the value:
\* write_tag(tag, value, 'BOOL') followed by read_tag(tag), against a
\* controller that applies the masks to the word they are sent for, reads
\* value back if and only if the write reported success, for 'Counts.3',
\* 'Flags[37]' and 'Arr[2].5'.
C19_BitWriteReadsBack ==
  [][(ReadsBack /\ h_plc.was # h_plc.value) =>
       (ReadReturned(h_plc.value) <=> WriteReportedSuccess)]_vars

\* a tuple <<name, value, typ>> for which no request can be made: its name
\* has no request path, or its value does not pack as its type
NoRequestPath(t) == create_tag_rp_is_None(_prep_bools(t[1], t[3], FALSE).tag)
NoEncoding(t) ==
  /\ ~_prep_bools(t[1], t[3], FALSE).has_bit
  /\ (t[3] \notin DOMAIN S_DATA_TYPE \/ PackRaises(t[3], t[2]))
Surviving(tuples) == SelectSeq(tuples, LAMBDA t : ~NoRequestPath(t) /\ ~NoEncoding(t))

\* the step in which a write_tag of a list begins on a session that is or
\* gets connected, and the step in which its request is sent
MultiWriteBegins == Idle /\ ops' = ops + 1 /\ result'.op = "write_tag" /\ _target_is_connected'
MultiWriteSends == Running("write_tag") /\ Top.arg.multi /\ Sends

\* the i-th result is the i-th surviving tuple with the status of the i-th
\* sub-reply
ResultsFollow(results, tuples, subs) ==
  /\ Len(results) = Len(subs)
  /\ \A i \in 1..Len(subs) :
       results[i] = Append(tuples[i], IF subs[i].status = 0 THEN "GOOD" ELSE "BAD")

\* C20 as stated: a write_tag of a list is not ended by a tuple without
\* request path or with a value that does not pack; the surviving tuples are
\* sent in one Multiple Service Packet and the i-th result belongs to the
\* i-th surviving tuple.
C20_BadTupleIsDropped ==
  [][/\ MultiWriteBegins => stack' # <<>>
     /\ MultiWriteSends =>
          /\ Last(h_sent').service = "Multiple Service Packet"
          /\ Len(Last(h_sent').arg.requests) = Len(Surviving(Top.arg.tag))
          /\ (_reply' # NoReply /\ Len(_reply'.body.subs) <= Len(Surviving(Top.arg.tag))) =>
               /\ result'.kind = "return"
               /\ ResultsFollow(result'.value, Surviving(Top.arg.tag),
                                _reply'.body.subs)]_vars

(***************************************************************************)
(* Properties of write_array.                                              *)
(***************************************************************************)
\* the step in which write_array sends a fragment
FragmentSent == Running("write_array") /\ Sends

\* the values of the fragments of the requests reqs, one after the other
RECURSIVE Fragments(_)
Fragments(reqs) ==
  IF reqs = <<>> THEN <<>> ELSE Head(reqs).arg.fragment \o Fragments(Tail(reqs))

BytesOfValues(items, data_type) == Len(items) * DATA_FUNCTION_SIZE[data_type]

\* C21: every Write Tag Fragmented request of a write_array of a non-empty
\* list carries total_count = len(values) and as byte_offset the encoded
\* size of the fragments sent before it; every fragment but the last has 450
\* bytes or more; the fragments sent make up the values in order, each once,
\* and are all of them when write_array returns.
C21_FragmentsCoverValues ==
  [][FragmentSent =>
       LET values == Top.arg.values.items
           typ == Top.arg.data_type
           req == Last(h_sent').arg
       IN  /\ Last(h_sent').service = "Write Tag Fragmented"
           /\ req.total_count = Len(values)
           /\ req.byte_offset = BytesOfValues(Fragments(h_sent), typ)
           /\ req.fragment # <<>>
           /\ Fragments(h_sent') = SubSeq(values, 1, Len(Fragments(h_sent')))
           /\ \/ BytesOfValues(req.fragment, typ) >= 450
              \/ Fragments(h_sent') = values
           /\ \A i \in 1..Len(h_sent) :
                BytesOfValues(h_sent[i].arg.fragment, typ) >= 450
           /\ result'.kind = "None" => Fragments(h_sent') = values
           /\ (Fragments(h_sent') # values /\ result'.kind # "raise") =>
                stack' # <<>>]_vars

\* a write_array of three fragments has returned
C21_Witness ==
  /\ Idle /\ result.op = "write_array" /\ result.kind = "None"
  /\ Len(h_sent) = 3
  /\ h_sent[3].arg.byte_offset > h_sent[2].arg.byte_offset
  /\ h_sent[2].arg.byte_offset > 0

(***************************************************************************)
(* Properties of write_string and read_string.                             *)
(***************************************************************************)
\* the step in which the read_string that follows the write ends, its last
\* request answered
ReadStringEnds == ops = 2 /\ stack # <<>> /\ stack' = <<>> /\ _reply' # NoReply
WriteStringDone(res) == res.op = "write_string" /\ res.kind = "None"

\* what write_string is to store for the string s in a string of size bytes
LenStored(s, size) == IF Len(s) < size THEN Len(s) ELSE size
DataStored(s, size) ==
  [j \in 1..size |-> IF j > Len(s) THEN 0 ELSE IF s[j] > 127 THEN s[j] - 256 ELSE s[j]]

\* C22 as stated: write_string(T, s, size) with len(s) <= size stores
\* LEN = min(len(s), size) and every character code above 127 as code - 256,
\* and a read_string(T) that follows returns s, the empty string and the
\* codes 128..255 included.
C22_StringRoundTrip ==
  [][/\ (stack' = <<>> /\ WriteStringDone(result')) =>
          /\ h_plc'.mem[LenTag(T)].bits =
               {k \in 0..30 : (LenStored(h_plc.value.s, h_plc.value.size) \div Pow2(k)) % 2 = 1}
          /\ h_plc'.mem[DataTag(T)].items =
               DataStored(h_plc.value.s, h_plc.value.size)
     /\ (ReadStringEnds /\ WriteStringDone(h_plc.last)) =>
          result' = Returned("read_string", h_plc.value.s)]_vars


(***************************************************************************)
(* Properties of the names of get_tag_list.                                *)
(***************************************************************************)
\* the step ends one pass of _get_tag_list: get_tag_list returns, or goes on
\* to the next program
PassEnds ==
  /\ Running("_get_tag_list") /\ Top.pc = "structs"
  /\ result'.kind # "raise"
  /\ stack' = <<>> \/ stack'[Len(stack')].pc = "enum"

\* the tags get_tag_list held before the pass, and holds after it
GatheredBefore == IF stack[1].pc = "controller" THEN <<>> ELSE stack[1].loc.tags
GatheredAfter == IF stack' = <<>> THEN result'.value ELSE stack'[1].loc.tags

\* the tags of a pass as the caller is to see them
Scoped(program, tl) ==
  [j \in 1..Len(tl) |->
     IF program = PyNone THEN tl[j]
     ELSE [tl[j] EXCEPT !.tag_name = Scope(program) \o <<".">> \o @]]

\* C23: the tags get_tag_list found in the scope of a program are returned with
\* tag_name 'Program:{program}.{tag_name}', both when it is called with '*' and
\* when it is called with the name of one program; the tags of the controller
\* scope are returned with their names as they are.
C23_ProgramTagsCarryTheirProgram ==
  [][PassEnds =>
       GatheredAfter = GatheredBefore \o Scoped(Top.arg.program, _tag_list)]_vars

(***************************************************************************)
(* Properties of the names of the bits of a BOOL array.                    *)
(***************************************************************************)
\* write_tag is called and the session is there
WriteTagEntered == Idle /\ ops = 0 /\ result'.op = "write_tag" /\ _target_is_connected'

\* the Read Modify Write that sets bit i of a BOOL array to value
BoolArrayWrite(i, value) ==
  [service |-> "Read Modify Write Tag", name |-> FlagsAt(i \div 32),
   data |-> [mask_size |-> 4,
             or_mask |-> IF value THEN {i % 32} ELSE {},
             and_mask |-> (0..31) \ (IF value THEN {} ELSE {i % 32})]]

\* C24: write_tag of 'Flags.i' and of 'Flags[i]' with type BOOL make the same
\* request: a Read Modify Write of element i div 32 of Flags with masks of 4
\* bytes for bit i mod 32.
C24_BoolFormsAgree ==
  [][WriteTagEntered =>
       \A i \in BoolIndices :
         (h_plc.tag \in {FlagsDot(i), FlagsAt(i)}) =>
           /\ stack' # <<>>
           /\ stack'[1].loc.service = "Read Modify Write Tag"
           /\ stack'[1].loc.requests =
                <<[name |-> FlagsAt(i \div 32),
                   data |-> BoolArrayWrite(i, h_plc.value).data,
                   service |-> "Read Modify Write Tag"]>>]_vars

(***************************************************************************)
(* Properties of _build_udt on templates that hold themselves.             *)
(***************************************************************************)
\* the frames of _build_udt on the stack
BuildFrames == {j \in 1..Len(stack) : stack[j].fn = "_build_udt"}

\* the template whose descriptor the frame j of _build_udt builds: the one
\* its caller read, for the tag of line 1015 or for the member of line 962
BuiltBy(j) ==
  IF stack[j - 1].fn = "_build_udt"
  THEN BitAnd(Head(stack[j - 1].loc.data).type_code, 4095)
  ELSE _tag_list[stack[j - 1].loc.i].template_instance_id

\* C25: _build_udt is never entered for a template whose descriptor is being
\* built: a member of a template in flight is recorded as 'None' and no two
\* nested calls of _build_udt build the descriptor of the same instance id.
C25_NoTemplateBuiltTwiceAtOnce ==
  \A j \in BuildFrames : \A k \in BuildFrames : (j < k) => (BuiltBy(j) # BuiltBy(k))

(***************************************************************************)
(* Properties of the loop of _read_template.                               *)
(***************************************************************************)
\* the step is one round of the loop of lines 855-877
TemplateRound == Running("_read_template") /\ Sends

\* after the step the loop of _read_template is still going
StillReading == stack' # <<>> /\ stack'[Len(stack')].fn = "_read_template"

\* C26: after a Read Template reply with SUCCESS the loop finishes and the
\* bytes received are cached; after one with status 0x06 the bytes are
\* appended, byte_offset advances by their number and the loop goes on; after
\* one with any other status no further request is sent, the operation ends in
\* error and _template_cache is not written.
C26_TemplateLoopEnds ==
  [][(TemplateRound /\ Answered(_reply')) =>
       LET r == _reply'
           id == Top.arg.instance_id
       IN  /\ (r.status = SUCCESS) =>
                /\ ~StillReading
                /\ id \in DOMAIN _template_cache'
                /\ _template_cache'[id] = _buffer \o r.body.data
           /\ (r.status = INSUFFICIENT_PACKET_SPACE) =>
                /\ StillReading
                /\ _buffer' = _buffer \o r.body.data
                /\ _byte_offset' = _byte_offset + (BlockBytes * Len(r.body.data))
           /\ (r.status \notin {SUCCESS, INSUFFICIENT_PACKET_SPACE}) =>
                /\ ~StillReading
                /\ _status'[1] # SUCCESS
                /\ _template_cache' = _template_cache]_vars

(***************************************************************************)
(* Properties of what the caches come to hold.                             *)
(***************************************************************************)
\* the keys the step adds to a cache
Added(cache_before, cache_after) == (DOMAIN cache_after) \ (DOMAIN cache_before)

\* the makeup _parse_structure_makeup_attributes makes of the reply r
MakeupOf(r) == _parse_structure_makeup_attributes(Driver, r.body, r.status).d._buffer

\* C27: a value comes into _struct_cache[i] only as the makeup parsed from the
\* Get Attributes reply to the request for instance i of that step, and into
\* _template_cache[i] only as the bytes gathered from Read Template replies
\* for instance i; an exchange whose reply is lost or refused leaves the
\* caches as they were.
C27_CachedIsConfirmed ==
  [][/\ \A i \in Added(_struct_cache, _struct_cache') :
          /\ Sends
          /\ Last(h_sent').service = "Get Attributes"
          /\ Last(h_sent').arg.instance = i
          /\ Answered(_reply') /\ _reply'.service = "Get Attributes"
          /\ _struct_cache'[i] = MakeupOf(_reply')
     /\ \A i \in Added(_template_cache, _template_cache') :
          /\ TemplateRound
          /\ Last(h_sent').arg.instance = i
          /\ Answered(_reply') /\ _reply'.service = "Read Template"
          /\ _template_cache'[i] = _buffer \o _reply'.body.data
     /\ (Sends /\ ~Answered(_reply')) =>
          (_struct_cache' = _struct_cache /\ _template_cache' = _template_cache)]_vars

(***************************************************************************)
(* Properties of the loop state at the entry of a fragmented operation.    *)
(***************************************************************************)
\* the step enters the loop of read_array (line 477), of _read_template
\* (line 855)
ReadArrayEntered ==
  ~Running("read_array") /\ stack' # <<>> /\ stack'[Len(stack')].fn = "read_array"
TemplateEntered ==
  ~Running("_read_template") /\ stack' # <<>>
  /\ stack'[Len(stack')].fn = "_read_template"

\* read_array, called by the user, returns its list in the step
ReadArrayReturns ==
  Running("read_array") /\ stack' = <<>> /\ result' .op = "read_array"
  /\ result'.kind = "return"

\* the replies of the call that _parse_fragment took values from
Parsed(rx) ==
  SelectSeq(rx, LAMBDA r : Answered(r) /\ r.service = "Read Tag Fragmented"
                           /\ r.body.hdr /\ r.body.dt \in DOMAIN I_DATA_TYPE)

\* C28: whatever the call before left, read_array enters its loop with
\* byte_offset 0, index 0 and an empty list and _read_template, for an
\* instance not cached, with byte_offset 0 and an empty buffer; the first
\* request of either carries byte_offset 0 and the list read_array returns
\* holds the values of the replies of this call alone, numbered from 0.
C28_LoopStateStartsAfresh ==
  [][/\ ReadArrayEntered =>
          (_byte_offset' = 0 /\ _last_position' = 0 /\ _tag_list' = <<>>)
     /\ TemplateEntered => (_byte_offset' = 0 /\ _buffer' = <<>>)
     /\ ((Running("read_array") \/ Running("_read_template")) /\ Sends /\ Top.n = 0) =>
          (Last(h_sent').arg.byte_offset = 0)
     /\ ReadArrayReturns =>
          (result'.value = [i \in 1..Len(AllValues(Parsed(h_rx'))) |->
                              <<i - 1, AllValues(Parsed(h_rx'))[i]>>])]_vars

\* read_array at its first request, in the second call of a client whose
\* first call, a get_tag_list, was left by an exception in the middle of
\* reading a template
C28_Witness ==
  /\ ops = 2 /\ Running("read_array") /\ Top.n = 0
  /\ 1 \in DOMAIN _struct_cache /\ _get_template_in_progress
  /\ _byte_offset = 0 /\ _last_position = 0 /\ _tag_list = <<>>

(***************************************************************************)
(* Properties of _program_names.                                           *)
(***************************************************************************)
\* C29: _program_names holds every program name at most once, whatever calls
\* of get_tag_list were made, so that get_tag_list('*') lists the tags of
\* each program once.
C29_ProgramNamesAreASet ==
  \A i \in 1..Len(_program_names) : \A j \in 1..Len(_program_names) :
    (i # j) => (_program_names[i] # _program_names[j])

(***************************************************************************)
(* Properties of the names in the result of a write_tag of a list.         *)
(***************************************************************************)
\* C30: every tuple of the result of a write_tag of a list names its tag as
\* the caller did: the i-th result carries the name of the i-th tuple written,
\* for 'Flags[i]' with any i and for a bit 'Arr[k].b' alike.
C30_ResultNamesTheTagAddressed ==
  [][(MultiWriteSends /\ result'.kind = "return") =>
       \A i \in 1..Len(result'.value) :
         /\ i <= Len(Top.arg.tag)
         /\ result'.value[i][1] = Top.arg.tag[i][1]]_vars

(***************************************************************************)
(* Properties of the start instances of the symbol enumeration.            *)
(***************************************************************************)
\* C31: within one enumeration every Get Instance Attributes List request
\* after the first carries a start instance greater than the one before it,
\* whatever 0x06 pages of entries at or above the requested instance came
\* in, a page without entries among them.
C31_StartInstanceIncreases ==
  [][(EnumRound /\ Top.n > 0) =>
       Last(h_sent').arg.instance > Last(h_sent).arg.instance]_vars

====
